---- MODULE Spec2Model ----
(***************************************************************************)
(* DropboxSync (src/main.py, src/utils.py): a periodic bidirectional       *)
(* synchroniser between a local directory tree and a Dropbox folder.       *)
(*                                                                         *)
(* State: the local tree and the remote store (the two file systems), the  *)
(* clock, the four indices of DropboxSync, the LocalFile objects the       *)
(* indices share by reference (with their lazily filled fields), and the   *)
(* position of sync() between its steps.                                   *)
(***************************************************************************)
EXTENDS Integers, Sequences, FiniteSets, TLC

\* ------------------------------------------------------------------ bounds
MaxTime == 2        \* the clock runs from 1 to MaxTime (units of 0.1 s)
MaxContent == 2     \* file contents are 1..MaxContent

\* ------------------------------------------------------------------- paths
\* Relative paths are POSIX strings, modelled as sequences of characters.
pA == <<"a">>
pAB == <<"a", "/", "b">>

\* The order in which rglob, the remote listing and every dict built from
\* them enumerate the paths.
PathOrder == <<pA, pAB>>
Paths == {PathOrder[i] : i \in DOMAIN PathOrder}

\* The environment creates folders at FolderPaths and files at FilePaths.
FolderPaths == {pA}
FilePaths == {pAB}

depth(p) == Cardinality({i \in DOMAIN p : p[i] = "/"})

\* q is a proper ancestor directory of p
IsAncestor(q, p) ==
    /\ Len(q) < Len(p)
    /\ SubSeq(p, 1, Len(q)) = q
    /\ p[Len(q) + 1] = "/"

\* str.startswith on the POSIX strings
startswith(s, prefix) ==
    /\ Len(prefix) <= Len(s)
    /\ SubSeq(s, 1, Len(prefix)) = prefix

\* ---------------------------------------------------------------- contents
Contents == 1..MaxContent
\* st_size of a file holding content c: contents 1 and 2 differ in size,
\* contents 2 and 3 share one
SizeOf(c) == (c \div 2) + 1
\* the Dropbox content hash of content c: equal iff the bytes are equal
compute_dropbox_hash(c) == c
NoHash == 0

\* ------------------------------------------------------------ file systems
\* One node of the local tree or of the remote store. For a local file
\* mtime is st_mtime rounded to 0.1 s (get_mod_time_locally); for a remote
\* file it is client_modified.
Absent == [kind |-> "none", content |-> 0, mtime |-> 0]
Dir == [kind |-> "dir", content |-> 0, mtime |-> 0]
File(c, t) == [kind |-> "file", content |-> c, mtime |-> t]

EmptyFS == [p \in Paths |-> Absent]

HasChild(fs, p) == \E q \in Paths : IsAncestor(p, q) /\ fs[q].kind # "none"
ParentsExist(fs, p) == \A q \in Paths : IsAncestor(q, p) => fs[q].kind = "dir"

\* mkdir(parents=True) / files_create_folder_v2 / the implicit parents of an
\* upload: p and every missing ancestor become folders
MakeDirs(fs, p) ==
    [q \in Paths |-> IF (q = p \/ IsAncestor(q, p)) /\ fs[q].kind = "none"
                     THEN Dir ELSE fs[q]]

WithParents(fs, p) ==
    [q \in Paths |-> IF IsAncestor(q, p) /\ fs[q].kind = "none"
                     THEN Dir ELSE fs[q]]

\* shutil.rmtree / a remote delete: p and everything beneath it disappear
RemoveTree(fs, p) ==
    [q \in Paths |-> IF q = p \/ IsAncestor(p, q) THEN Absent ELSE fs[q]]

\* ------------------------------------------------------------------ entries
\* An index maps every path to an entry or to None. A RemoteFile is an
\* immutable value; a LocalFile is a reference to an object whose timestamp,
\* size and dropbox_hash are filled on first demand from the live file.
None == [cls |-> "N"]
RemoteFile(n) ==
    [cls |-> "R", is_folder |-> n.kind = "dir",
     ts |-> n.mtime,
     size |-> IF n.kind = "file" THEN SizeOf(n.content) ELSE 0,
     hash |-> IF n.kind = "file" THEN compute_dropbox_hash(n.content) ELSE NoHash]
LocalRef(s) == [cls |-> "L", slot |-> s]

Slots == {0, 1}
\* LocalFile.__init__: nothing but is_folder is read at construction
LocalFile(n) ==
    [is_folder |-> n.kind = "dir", timestamp |-> -1, size |-> -1,
     dropbox_hash |-> NoHash]
NullObj == [is_folder |-> FALSE, timestamp |-> -1, size |-> -1,
            dropbox_hash |-> NoHash]

EmptyIndex == [p \in Paths |-> None]
EmptyHeap == [p \in Paths |-> [s \in Slots |-> NullObj]]

Keys(idx) == {p \in Paths : idx[p] # None}
\* the keys of a dict in its iteration order
KeySeq(idx) == SelectSeq(PathOrder, LAMBDA p : idx[p] # None)

\* ------------------------------------------------- FileInfo's lazy getters
\* H = [o |-> the LocalFile objects of one path, err |-> an exception was
\* raised]; n is the live local node of that path. force_X is the effect of
\* a call of get_X on the objects, get_X its value afterwards.
is_folder(H, e) == IF e.cls = "L" THEN H.o[e.slot].is_folder ELSE e.is_folder

force_modified_timestamp(H, e, n) ==
    IF H.err \/ e.cls # "L" THEN H
    ELSE IF H.o[e.slot].is_folder \/ H.o[e.slot].timestamp >= 0 THEN H
    ELSE IF n.kind = "none" THEN [H EXCEPT !.err = TRUE]
    ELSE [H EXCEPT !.o[e.slot].timestamp = n.mtime]

get_modified_timestamp(H, e) ==
    IF is_folder(H, e) THEN 0
    ELSE IF e.cls = "L" THEN H.o[e.slot].timestamp ELSE e.ts

force_size(H, e, n) ==
    IF H.err \/ e.cls # "L" THEN H
    ELSE IF H.o[e.slot].is_folder \/ H.o[e.slot].size >= 0 THEN H
    ELSE IF n.kind = "none" THEN [H EXCEPT !.err = TRUE]
    ELSE [H EXCEPT !.o[e.slot].size = SizeOf(n.content)]

get_size(H, e) ==
    IF is_folder(H, e) THEN 0
    ELSE IF e.cls = "L" THEN H.o[e.slot].size ELSE e.size

force_dropbox_hash(H, e, n) ==
    IF H.err \/ e.cls # "L" THEN H
    ELSE IF H.o[e.slot].is_folder \/ H.o[e.slot].dropbox_hash # NoHash THEN H
    ELSE IF n.kind # "file" THEN [H EXCEPT !.err = TRUE]
    ELSE [H EXCEPT !.o[e.slot].dropbox_hash = compute_dropbox_hash(n.content)]

get_dropbox_hash(H, e) ==
    IF is_folder(H, e) THEN NoHash
    ELSE IF e.cls = "L" THEN H.o[e.slot].dropbox_hash ELSE e.hash


\* get_mod_time_locally / get_size_locally on a live node. A directory's
\* st_mtime is the time of its last change and its st_size the size of its
\* table; the code only ever compares them with a folder entry's 0.
get_mod_time_locally(n) == IF n.kind = "file" THEN n.mtime ELSE 1
get_size_locally(n) == IF n.kind = "file" THEN SizeOf(n.content) ELSE 4096

\* ------------------------------------------------------------------- state
VARIABLES
    debug,              \* DropboxSync.debug
    dropbox_root,       \* dropbox_folder is the root "/" of the namespace
    now,                \* the clock, in units of 0.1 s
    lfs,                \* the local tree below local_folder
    rfs,                \* the remote store below dropbox_folder
    heap,               \* the LocalFile objects, two per path
    local_index, remote_index,
    last_local_index, last_remote_index,
    locally_modified, locally_removed,
    remotely_modified, remotely_removed,
    action_cache,
    pc,                 \* position of sync(): idle, c1, a1, ..., a4, end, crashed
    cur,                \* history: what the running (or last) pass has done
    start,              \* history: both sides at the start of that pass, and
                        \*          the completed pass before it
    base,               \* history: the last completed pass and both sides at its end
    \* one applier on its own (SpecAppliers)
    staged_order,       \* the keys of the dict handed to the applier, in items() order
    issued,             \* the calls the applier has issued, in order
    apc,                \* idle, upload, delete_remote, delete_local, done
    \* one call of _upload_file on its own (SpecUploadFile)
    file_size,          \* file_info.get_size(), in MiB
    byte_position,      \* file.tell(), in MiB
    calls,              \* the calls made on the client, in order
    upc,                \* open, loop, closed
    \* one applier step on any state of both sides (SpecApplyTime)
    api_error,          \* files_get_metadata raises an ApiError other than not_found
    \* one call of _delete_batch on its own (SpecDeleteBatch)
    len_files,          \* len(file_entries)
    launched,           \* the batches handed to files_delete_batch, in order
    job_status,         \* the status of the job of each launched batch
    dpc,                \* launch, poll, sleep, poll_again, returned
    \* the content hash of two files (SpecHash)
    file_bytes,         \* the bytes of the file
    other_bytes,        \* the bytes of a second file
    digests,            \* what the hash functions have returned
    hpc                 \* the hash functions called so far

sync_vars == <<debug, dropbox_root, now, lfs, rfs, heap, local_index, remote_index,
               last_local_index, last_remote_index, locally_modified,
               locally_removed, remotely_modified, remotely_removed, action_cache,
               pc, cur, start, base>>
applier_vars == <<staged_order, issued, apc>>
upload_vars == <<file_size, byte_position, calls, upc>>
probe_vars == <<api_error>>
batch_vars == <<len_files, launched, job_status, dpc>>
hash_vars == <<file_bytes, other_bytes, digests, hpc>>
more_vars == <<probe_vars, batch_vars, hash_vars>>
aux == <<applier_vars, upload_vars, more_vars>>
vars == <<sync_vars, applier_vars, upload_vars, more_vars>>

config == <<debug, dropbox_root>>
indices == <<local_index, remote_index>>
snapshots == <<last_local_index, last_remote_index>>
deltas == <<locally_modified, locally_removed, remotely_modified, remotely_removed>>

NoOps == [p \in Paths |-> {}]
NoPass == [staged |-> [k \in 1..4 |-> {}], done |-> NoOps, skipped |-> {},
           completed |-> FALSE]
NoBase == [valid |-> FALSE, lfs |-> EmptyFS, rfs |-> EmptyFS, done |-> NoOps,
           staged |-> {}, skipped |-> FALSE]
NoStart == [active |-> FALSE, lfs |-> EmptyFS, rfs |-> EmptyFS, known |-> {},
            prev |-> NoBase]

\* no applier and no upload is looked at on its own
NoApplier == staged_order = <<>> /\ issued = <<>> /\ apc = "off"
NoUpload == file_size = 0 /\ byte_position = 0 /\ calls = <<>> /\ upc = "off"
NoBatch == len_files = 0 /\ launched = <<>> /\ job_status = <<>> /\ dpc = "off"
NoHashing == file_bytes = <<>> /\ other_bytes = <<>> /\ digests = <<>> /\ hpc = "off"
\* every metadata call answers with the entry or with not_found
ProbeAnswers == api_error = FALSE

\* DropboxSync.__init__: the four indices are empty dicts
Constructed ==
    /\ now = 1
    /\ lfs = EmptyFS
    /\ rfs = EmptyFS
    /\ heap = EmptyHeap
    /\ local_index = EmptyIndex
    /\ remote_index = EmptyIndex
    /\ last_local_index = EmptyIndex
    /\ last_remote_index = EmptyIndex
    /\ locally_modified = EmptyIndex
    /\ locally_removed = EmptyIndex
    /\ remotely_modified = EmptyIndex
    /\ remotely_removed = EmptyIndex
    /\ action_cache = EmptyIndex
    /\ pc = "idle"
    /\ cur = NoPass
    /\ start = NoStart
    /\ base = NoBase

Init ==
    /\ debug \in BOOLEAN
    /\ dropbox_root \in BOOLEAN
    /\ Constructed
    /\ NoApplier
    /\ NoUpload
    /\ ProbeAnswers
    /\ NoBatch
    /\ NoHashing

\* ------------------------------------------------------------- environment
\* The user and other clients change both sides between two passes
\* (time.sleep(interval_seconds) in main()).
\* The history of the last pass is kept until something else happens.
Forget == cur' = NoPass /\ start' = NoStart

program == <<heap, indices, snapshots, deltas, action_cache, pc>>

LocalChange(fs2) ==
    /\ pc = "idle"
    /\ fs2 # lfs
    /\ lfs' = fs2
    /\ Forget
    /\ UNCHANGED <<config, aux, now, rfs, program, base>>

RemoteChange(fs2) ==
    /\ pc = "idle"
    /\ fs2 # rfs
    /\ rfs' = fs2
    /\ Forget
    /\ UNCHANGED <<config, aux, now, lfs, program, base>>

LocalMkdir ==
    \E p \in FolderPaths :
        /\ lfs[p].kind = "none"
        /\ LocalChange(MakeDirs(lfs, p))

LocalWrite ==
    \E p \in FilePaths, c \in Contents :
        LocalChange([WithParents(lfs, p) EXCEPT ![p] = File(c, now)])

LocalRemove ==
    \E p \in Paths :
        /\ lfs[p].kind # "none"
        /\ LocalChange(RemoveTree(lfs, p))

RemoteMkdir ==
    \E p \in FolderPaths :
        /\ rfs[p].kind = "none"
        /\ RemoteChange(MakeDirs(rfs, p))

RemoteWrite ==
    \E p \in FilePaths, c \in Contents :
        RemoteChange([WithParents(rfs, p) EXCEPT ![p] = File(c, now)])

RemoteRemove ==
    \E p \in Paths :
        /\ rfs[p].kind # "none"
        /\ RemoteChange(RemoveTree(rfs, p))

Tick ==
    /\ pc = "idle"
    /\ now < MaxTime
    /\ now' = now + 1
    /\ Forget
    /\ UNCHANGED <<config, aux, lfs, rfs, program, base>>


\* ------------------------------------------------------------------ sync()
\* An exception leaves sync(); nothing in main() catches it, the process
\* ends. The in-memory state is kept as the last completed step left it.
Crash ==
    /\ pc' = "crashed"
    /\ UNCHANGED <<config, aux, now, lfs, rfs, heap, indices, snapshots, deltas,
                   action_cache, cur, start, base>>

\* the slot of a path that no snapshot entry refers to
FreeSlot(p) ==
    IF \E e \in {last_local_index[p], last_remote_index[p]} :
           e.cls = "L" /\ e.slot = 0
    THEN 1 ELSE 0

\* _get_modified with the timestamp test made non-strict (<=)
GetModifiedAtNonStrict(H, each_file, last_state, n) ==
    IF each_file = None THEN [H |-> H, in |-> FALSE]
    ELSE IF last_state = None THEN [H |-> H, in |-> TRUE]
    ELSE LET H1 == force_modified_timestamp(H, last_state, n)
             H2 == force_modified_timestamp(H1, each_file, n)
         IN  [H |-> H2,
              in |-> get_modified_timestamp(H2, last_state)
                        <= get_modified_timestamp(H2, each_file)]

\* _get_modified, for one path: is each_file a creation or newer than the
\* snapshot's last_state?
\* Result: [H |-> the objects afterwards, in |-> in the returned dict]
GetModifiedAt(H, each_file, last_state, n) ==
    IF each_file = None THEN [H |-> H, in |-> FALSE]
    ELSE IF last_state = None THEN [H |-> H, in |-> TRUE]
    ELSE LET H1 == force_modified_timestamp(H, last_state, n)
             H2 == force_modified_timestamp(H1, each_file, n)
         IN  [H |-> H2,
              in |-> get_modified_timestamp(H2, last_state)
                        < get_modified_timestamp(H2, each_file)]

\* _get_local_index, for one path: reuse the snapshot's entry when its
\* timestamp and size equal the live ones, else construct a LocalFile
\* Result: [H |-> the objects afterwards, entry |-> local_file_index[p]]
GetLocalIndexAt(p) ==
    LET n == lfs[p]
        H0 == [o |-> heap[p], err |-> FALSE]
        cached_file == last_local_index[p]
        H1 == IF cached_file # None
              THEN force_modified_timestamp(H0, cached_file, n) ELSE H0
        sameTime == /\ cached_file # None
                    /\ get_modified_timestamp(H1, cached_file) = get_mod_time_locally(n)
        H2 == IF sameTime THEN force_size(H1, cached_file, n) ELSE H1
        reuse == sameTime /\ get_size(H2, cached_file) = get_size_locally(n)
    IN  IF n.kind = "none" THEN [H |-> H0, entry |-> None]
        ELSE IF reuse THEN [H |-> H2, entry |-> cached_file]
        ELSE [H |-> [H2 EXCEPT !.o[FreeSlot(p)] = LocalFile(n)],
              entry |-> LocalRef(FreeSlot(p))]

\* _get_remote_index: one RemoteFile per listed file or folder
GetRemoteIndex == [p \in Paths |-> IF rfs[p].kind = "none" THEN None
                                   ELSE RemoteFile(rfs[p])]

\* sync(), lines 468-475, for one path
BeginAt(p) ==
    LET li == GetLocalIndexAt(p)
        ri == GetRemoteIndex[p]
        lm == GetModifiedAt(li.H, li.entry, last_local_index[p], lfs[p])
        rm == GetModifiedAt(lm.H, ri, last_remote_index[p], lfs[p])
    IN  [H |-> rm.H, local |-> li.entry, remote |-> ri,
         lmod |-> lm.in, rmod |-> rm.in]

SyncBegin ==
    /\ pc = "idle"
    /\ LET b == [p \in Paths |-> BeginAt(p)]
       IN  /\ start' = [active |-> TRUE, lfs |-> lfs, rfs |-> rfs,
                       known |-> Keys(last_local_index) \cup Keys(last_remote_index),
                       prev |-> base]
           /\ cur' = NoPass
           /\ UNCHANGED <<config, aux, now, lfs, rfs, snapshots, action_cache, base>>
           /\ IF \E p \in Paths : b[p].H.err
              THEN /\ pc' = "crashed"
                   /\ UNCHANGED <<heap, indices, deltas>>
              ELSE
                   /\ heap' = [p \in Paths |-> b[p].H.o]
                   /\ local_index' = [p \in Paths |-> b[p].local]
                   /\ remote_index' = [p \in Paths |-> b[p].remote]
                   /\ locally_modified' =
                         [p \in Paths |-> IF b[p].lmod THEN b[p].local ELSE None]
                   /\ locally_removed' =
                         [p \in Paths |-> IF b[p].local = None
                                          THEN last_local_index[p] ELSE None]
                   /\ remotely_modified' =
                         [p \in Paths |-> IF b[p].rmod THEN b[p].remote ELSE None]
                   /\ remotely_removed' =
                         [p \in Paths |-> IF b[p].remote = None
                                          THEN last_remote_index[p] ELSE None]
                   /\ pc' = "c1"

\* --------------------------------------------------------- _sync_action
\* the ADD branch with the comparison of the contents left out: an older
\* target is overwritten whether or not it differs
ClassifyAddByTimeOnly(H, src_file, dst_file, n) ==
    IF dst_file = None
    THEN [H |-> H, stage |-> TRUE, dst |-> src_file, skip |-> FALSE]
    ELSE IF is_folder(H, src_file)
    THEN [H |-> H, stage |-> FALSE, dst |-> dst_file, skip |-> FALSE]
    ELSE
    LET H1 == force_modified_timestamp(H, dst_file, n)
        H2 == force_modified_timestamp(H1, src_file, n)
        older == get_modified_timestamp(H2, dst_file)
                    < get_modified_timestamp(H2, src_file)
    IN  IF older
        THEN [H |-> H2, stage |-> TRUE, dst |-> src_file, skip |-> FALSE]
        ELSE [H |-> H2, stage |-> FALSE, dst |-> dst_file, skip |-> TRUE]

\* The classification loop of _sync_action (lines 418-453) for one entry of
\* source_changes. Result: [H, stage |-> put into action_cache,
\* dst |-> index_dst[p] afterwards, skip |-> logged as a skipped conflict]
ClassifyAdd(H, src_file, dst_file, n) ==
    IF dst_file = None
    THEN [H |-> H, stage |-> TRUE, dst |-> src_file, skip |-> FALSE]
    ELSE IF is_folder(H, src_file)
    THEN [H |-> H, stage |-> FALSE, dst |-> dst_file, skip |-> FALSE]
    ELSE
    LET H1 == force_modified_timestamp(H, dst_file, n)
        H2 == force_modified_timestamp(H1, src_file, n)
        older == get_modified_timestamp(H2, dst_file)
                    < get_modified_timestamp(H2, src_file)
        H3 == force_size(H2, dst_file, n)
        H4 == force_size(H3, src_file, n)
        sizeDiffers == get_size(H4, dst_file) # get_size(H4, src_file)
        H5 == force_dropbox_hash(H4, dst_file, n)
        H6 == force_dropbox_hash(H5, src_file, n)
        hashDiffers == get_dropbox_hash(H6, dst_file) # get_dropbox_hash(H6, src_file)
    IN  IF ~older
        THEN [H |-> H2, stage |-> FALSE, dst |-> dst_file, skip |-> TRUE]
        ELSE IF sizeDiffers
        THEN [H |-> H4, stage |-> TRUE, dst |-> src_file, skip |-> FALSE]
        ELSE IF hashDiffers
        THEN [H |-> H6, stage |-> TRUE, dst |-> src_file, skip |-> FALSE]
        ELSE [H |-> H6, stage |-> FALSE, dst |-> dst_file, skip |-> TRUE]

\* ClassifyDel with the timestamp test made strict (>) instead of >=
ClassifyDelStrict(H, src_file, dst_file, n) ==
    IF dst_file = None
    THEN [H |-> H, stage |-> FALSE, dst |-> None, skip |-> TRUE]
    ELSE
    LET H1 == force_modified_timestamp(H, src_file, n)
        H2 == force_modified_timestamp(H1, dst_file, n)
        later == get_modified_timestamp(H2, src_file)
                    > get_modified_timestamp(H2, dst_file)
        H3 == force_dropbox_hash(H2, dst_file, n)
        H4 == force_dropbox_hash(H3, src_file, n)
        sameHash == get_dropbox_hash(H4, dst_file) = get_dropbox_hash(H4, src_file)
    IN  IF ~later
        THEN [H |-> H2, stage |-> FALSE, dst |-> dst_file, skip |-> TRUE]
        ELSE IF sameHash
        THEN [H |-> H4, stage |-> TRUE, dst |-> None, skip |-> FALSE]
        ELSE [H |-> H4, stage |-> FALSE, dst |-> dst_file, skip |-> TRUE]

ClassifyDel(H, src_file, dst_file, n) ==
    IF dst_file = None
    THEN [H |-> H, stage |-> FALSE, dst |-> None, skip |-> TRUE]
    ELSE
    LET H1 == force_modified_timestamp(H, src_file, n)
        H2 == force_modified_timestamp(H1, dst_file, n)
        notOlder == get_modified_timestamp(H2, src_file)
                       >= get_modified_timestamp(H2, dst_file)
        H3 == force_dropbox_hash(H2, dst_file, n)
        H4 == force_dropbox_hash(H3, src_file, n)
        sameHash == get_dropbox_hash(H4, dst_file) = get_dropbox_hash(H4, src_file)
    IN  IF ~notOlder
        THEN [H |-> H2, stage |-> FALSE, dst |-> dst_file, skip |-> TRUE]
        ELSE IF sameHash
        THEN [H |-> H4, stage |-> TRUE, dst |-> None, skip |-> FALSE]
        ELSE [H |-> H4, stage |-> FALSE, dst |-> dst_file, skip |-> TRUE]

\* the arguments of the four calls of _sync_action in sync()
SourceChanges(k) ==
    CASE k = 1 -> locally_modified
      [] k = 2 -> locally_removed
      [] k = 3 -> remotely_modified
      [] k = 4 -> remotely_removed
IsAdd(k) == k \in {1, 3}
IsUp(k) == k \in {1, 2}
\* the debug flag handed to all four calls instead of the upward two
PhaseDebugAll(k) == debug
PhaseDebug(k) == IsUp(k) /\ debug

ClassifyAt(k, p) ==
    LET src_file == SourceChanges(k)[p]
        dst_file == IF IsUp(k) THEN remote_index[p] ELSE local_index[p]
        H == [o |-> heap[p], err |-> FALSE]
    IN  IF src_file = None
        THEN [H |-> H, stage |-> FALSE, dst |-> dst_file, skip |-> FALSE]
        ELSE IF IsAdd(k) THEN ClassifyAdd(H, src_file, dst_file, lfs[p])
        ELSE ClassifyDel(H, src_file, dst_file, lfs[p])

\* The classification loop of _sync_action run entry by entry in a given
\* order of the paths: acc = [heap, dst |-> index_dst, cache |-> action_cache,
\* err |-> an exception ended the loop]
ClassifyStart(k) ==
    [heap |-> heap, dst |-> IF IsUp(k) THEN remote_index ELSE local_index,
     cache |-> EmptyIndex, err |-> FALSE]

\* one iteration that also looks at what is staged already: an entry whose
\* folder is in action_cache is taken as covered by it and is not staged
ClassifyStepCovered(k, acc, p) ==
    LET src_file == SourceChanges(k)[p]
        H == [o |-> acc.heap[p], err |-> FALSE]
        c == IF IsAdd(k) THEN ClassifyAdd(H, src_file, acc.dst[p], lfs[p])
             ELSE ClassifyDel(H, src_file, acc.dst[p], lfs[p])
        covered == \E q \in Paths : IsAncestor(q, p) /\ acc.cache[q] # None
    IN  IF acc.err \/ src_file = None THEN acc
        ELSE IF c.H.err THEN [acc EXCEPT !.err = TRUE]
        ELSE [acc EXCEPT !.heap[p] = c.H.o,
                         !.dst[p] = c.dst,
                         !.cache[p] = IF c.stage /\ ~covered THEN src_file ELSE None]

\* one iteration of the loop, lines 419-453
ClassifyStep(k, acc, p) ==
    LET src_file == SourceChanges(k)[p]
        H == [o |-> acc.heap[p], err |-> FALSE]
        c == IF IsAdd(k) THEN ClassifyAdd(H, src_file, acc.dst[p], lfs[p])
             ELSE ClassifyDel(H, src_file, acc.dst[p], lfs[p])
    IN  IF acc.err \/ src_file = None THEN acc
        ELSE IF c.H.err THEN [acc EXCEPT !.err = TRUE]
        ELSE [acc EXCEPT !.heap[p] = c.H.o,
                         !.dst[p] = c.dst,
                         !.cache[p] = IF c.stage THEN src_file ELSE None]

\* the orders in which a dict over the paths can be iterated
Orders == {o \in [1..Cardinality(Paths) -> Paths] :
              \A i, j \in DOMAIN o : o[i] = o[j] => i = j}

\* action_cache and index_dst after the loop, or the exception
ClassifyInOrder(k, order) ==
    LET f[i \in 0..Len(order)] ==
            IF i = 0 THEN ClassifyStart(k)
            ELSE ClassifyStep(k, f[i - 1], order[i])
        r == f[Len(order)]
    IN  IF r.err THEN [err |-> TRUE, cache |-> EmptyIndex, dst |-> EmptyIndex]
        ELSE [err |-> FALSE, cache |-> r.cache, dst |-> r.dst]

PcOfClassify(k) == <<"c1", "c2", "c3", "c4">>[k]
PcOfApply(k) == <<"a1", "a2", "a3", "a4">>[k]
\* the calls of sync() with the two middle phases exchanged
PcAfterSwapped(k) == <<"c3", "end", "c2", "c4">>[k]
PcAfter(k) == <<"c2", "c3", "c4", "end">>[k]

Skips(at, ps) == {[at |-> at, path |-> p] : p \in ps}

_sync_action(k) ==
    /\ pc = PcOfClassify(k)
    /\ LET c == [p \in Paths |-> ClassifyAt(k, p)]
           staged == {p \in Paths : c[p].stage}
       IN  IF \E p \in Paths : c[p].H.err THEN Crash
           ELSE
           /\ heap' = [p \in Paths |-> c[p].H.o]
           /\ action_cache' =
                 [p \in Paths |-> IF c[p].stage THEN SourceChanges(k)[p] ELSE None]
           /\ IF IsUp(k)
              THEN /\ remote_index' = [p \in Paths |-> c[p].dst]
                   /\ UNCHANGED local_index
              ELSE /\ local_index' = [p \in Paths |-> c[p].dst]
                   /\ UNCHANGED remote_index
           /\ cur' = [cur EXCEPT
                        !.staged[k] = staged,
                        !.skipped = @ \cup Skips(PcOfClassify(k),
                                                 {p \in Paths : c[p].skip})]
           \* lines 455-458; every applier returns at once on an empty cache
           /\ pc' = IF PhaseDebug(k) \/ staged = {} THEN PcAfter(k)
                    ELSE PcOfApply(k)
           /\ UNCHANGED <<config, aux, now, lfs, rfs, snapshots, deltas, start,
                          base>>

Classify == \E k \in 1..4 : _sync_action(k)


\* ----------------------------------------------------------------- appliers
\* An applier runs its loops over a machine record
\* m = [lfs, rfs, heap, err, skips, done, queue].
Machine == [lfs |-> lfs, rfs |-> rfs, heap |-> heap, err |-> FALSE,
            skips |-> {}, done |-> NoOps, queue |-> <<>>]

Loop(Step(_, _), seq, m0) ==
    LET f[i \in 0..Len(seq)] == IF i = 0 THEN m0 ELSE Step(f[i - 1], seq[i])
    IN  f[Len(seq)]

Fail(m) == [m EXCEPT !.err = TRUE]
Skip(m, p) == [m EXCEPT !.skips = @ \cup {p}]
Did(m, p, op) == [m EXCEPT !.done[p] = @ \cup {op}]
SetObjs(m, p, H) == [m EXCEPT !.heap[p] = H.o]

Folders(cache) == SelectSeq(KeySeq(cache),
                            LAMBDA p : is_folder([o |-> heap[p], err |-> FALSE], cache[p]))
Files(cache) == SelectSeq(KeySeq(cache),
                          LAMBDA p : ~is_folder([o |-> heap[p], err |-> FALSE], cache[p]))

\* list.sort(key=depth), a stable sort; descending with reverse=True
RECURSIVE InsertByDepth(_, _, _)
InsertByDepth(seq, p, reverse) ==
    IF seq = <<>> THEN <<p>>
    ELSE IF (IF reverse THEN depth(Head(seq)) < depth(p)
                        ELSE depth(p) < depth(Head(seq)))
         THEN <<p>> \o seq
         ELSE <<Head(seq)>> \o InsertByDepth(Tail(seq), p, reverse)

SortByDepth(seq, reverse) ==
    LET f[i \in 0..Len(seq)] ==
            IF i = 0 THEN <<>> ELSE InsertByDepth(f[i - 1], seq[i], reverse)
    IN  f[Len(seq)]

\* _get_remote_file: the metadata of dropbox_folder / p, None on any ApiError
_get_remote_file(m, p) ==
    IF api_error \/ m.rfs[p].kind = "none" THEN None ELSE RemoteFile(m.rfs[p])

\* FileInfo.__eq__(self, other): path, timestamp and size are equal
\* Result: [H, eq]
FileInfoEq(H, self, other, n) ==
    LET H1 == force_modified_timestamp(force_modified_timestamp(H, self, n), other, n)
        sameTime == get_modified_timestamp(H1, self) = get_modified_timestamp(H1, other)
        H2 == force_size(force_size(H1, self, n), other, n)
    IN  IF sameTime
        THEN [H |-> H2, eq |-> get_size(H2, self) = get_size(H2, other)]
        ELSE [H |-> H1, eq |-> FALSE]

\* _create_folders_remotely, one folder
CreateFolderRemotely(m, p) ==
    IF m.err THEN m
    ELSE IF _get_remote_file(m, p) # None /\ m.rfs[p].kind = "dir" THEN m
    ELSE IF m.rfs[p].kind = "dir" THEN Fail(m)
    ELSE IF m.rfs[p].kind = "file" \/ ~ParentsExist(WithParents(m.rfs, p), p)
    THEN Fail(m)
    ELSE Did([m EXCEPT !.rfs = MakeDirs(m.rfs, p)], p, "create_folder")

\* _upload_file: the bytes of the live local file go to dropbox_folder / p
\* with mode overwrite; the store stamps them with its own time
UploadFile(m, p, expected) ==
    LET n == m.lfs[p]
        H == force_size([o |-> m.heap[p], err |-> FALSE], expected, n)
    IN  IF expected.cls # "L" \/ H.err \/ n.kind # "file" THEN Fail(m)
        ELSE IF m.rfs[p].kind = "dir" \/ ~ParentsExist(WithParents(m.rfs, p), p)
        THEN Fail(SetObjs(m, p, H))
        ELSE Did([SetObjs(m, p, H) EXCEPT
                     !.rfs = [WithParents(m.rfs, p) EXCEPT ![p] = File(n.content, now)]],
                 p, "upload")

\* _upload_files, one file
UploadOne(m, p) ==
    LET expected == action_cache[p]
        n == m.lfs[p]
        remote_file == _get_remote_file(m, p)
        H0 == [o |-> m.heap[p], err |-> FALSE]
        e == FileInfoEq(H0, remote_file, expected, n)
        H1 == force_modified_timestamp(e.H, expected, n)
    IN  IF m.err THEN m
        ELSE IF remote_file = None THEN UploadFile(m, p, expected)
        ELSE IF e.H.err THEN Fail(m)
        ELSE IF e.eq THEN SetObjs(m, p, e.H)
        ELSE IF get_modified_timestamp(H1, remote_file)
                   >= get_modified_timestamp(H1, expected)
        THEN Skip(SetObjs(m, p, H1), p)
        ELSE UploadFile(SetObjs(m, p, H1), p, expected)

\* _method_upload without the call of _create_folders_remotely
_method_upload_files_only(cache) == Loop(UploadOne, Files(cache), Machine)

_method_upload(cache) ==
    LET m1 == Loop(CreateFolderRemotely, Folders(cache), Machine)
    IN  Loop(UploadOne, Files(cache), m1)

\* files_delete_batch and the polling of its job: every queued path that
\* exists is deleted with all it contains
DeleteBatchOne(m, p) ==
    IF m.rfs[p].kind = "none" THEN m
    ELSE Did([m EXCEPT !.rfs = RemoveTree(m.rfs, p)], p, "delete_remote")

_delete_batch(m) == [Loop(DeleteBatchOne, m.queue, m) EXCEPT !.queue = <<>>]

\* _get_files_to_delete_remotely, one file
FileToDeleteRemotely(m, p) ==
    LET expected == action_cache[p]
        n == m.lfs[p]
        remote_file == _get_remote_file(m, p)
        H0 == [o |-> m.heap[p], err |-> FALSE]
        H1 == force_dropbox_hash(H0, expected, n)
        hashDiffers == get_dropbox_hash(H1, remote_file) # get_dropbox_hash(H1, expected)
        H2 == force_modified_timestamp(H1, expected, n)
        newer == get_modified_timestamp(H2, expected)
                    < get_modified_timestamp(H2, remote_file)
    IN  IF m.err THEN m
        ELSE IF remote_file = None THEN m
        ELSE IF remote_file.is_folder THEN m
        ELSE IF H1.err THEN Fail(m)
        ELSE IF hashDiffers THEN Skip(SetObjs(m, p, H1), p)
        ELSE IF H2.err THEN Fail(m)
        ELSE IF newer THEN Skip(SetObjs(m, p, H2), p)
        ELSE [SetObjs(m, p, H2) EXCEPT !.queue = Append(@, p)]

\* _get_folders_to_delete_remotely, one folder; m.queue is both
\* delete_args and the set deleted
FolderToDeleteRemotely(m, p) ==
    LET expected == action_cache[p]
        remote_file == _get_remote_file(m, p)
        H0 == [o |-> m.heap[p], err |-> FALSE]
    IN  IF m.err THEN m
        ELSE IF remote_file = None THEN m
        ELSE IF ~remote_file.is_folder THEN m
        ELSE IF get_modified_timestamp(H0, expected)
                   < get_modified_timestamp(H0, remote_file)
        THEN Skip(m, p)
        ELSE IF \E i \in DOMAIN m.queue : startswith(p, m.queue[i]) THEN m
        ELSE [m EXCEPT !.queue = Append(@, p)]

_method_delete_remote(cache) ==
    LET m1 == Loop(FileToDeleteRemotely, Files(cache), Machine)
        m2 == IF m1.err THEN m1 ELSE _delete_batch(m1)
        m3 == Loop(FolderToDeleteRemotely, SortByDepth(Folders(cache), FALSE), m2)
    IN  IF m3.err THEN m3 ELSE _delete_batch(m3)


\* What files_download_to_file(local path, expected.relative_path) reads.
\* The remote path is the RELATIVE path: it names the staged object only
\* when dropbox_folder is the root of the namespace. Otherwise it names an
\* object outside the synchronised folder, which may not exist or may hold
\* any content: outside[p] is that object.
OutsideNodes == {Absent} \cup {File(c, 1) : c \in Contents}
DownloadSource(m, p, outside) == IF dropbox_root THEN m.rfs[p] ELSE outside[p]

\* _method_download, one staged folder: mkdir(exist_ok=True, parents=True)
MakeLocalFolder(m, p) ==
    IF m.err THEN m
    ELSE IF m.lfs[p].kind = "file" \/ ~ParentsExist(WithParents(m.lfs, p), p)
    THEN Fail(m)
    ELSE IF m.lfs[p].kind = "dir" THEN m
    ELSE Did([m EXCEPT !.lfs = MakeDirs(m.lfs, p)], p, "mkdir")

\* the download of one staged file without the test of lines 245-250
DownloadOneUnguarded(m, p, outside) ==
    LET n == m.lfs[p]
        source == DownloadSource(m, p, outside)
    IN  IF m.err THEN m
        ELSE IF source.kind # "file" THEN Fail(m)
        ELSE IF n.kind = "dir" \/ ~ParentsExist(m.lfs, p) THEN Fail(m)
        ELSE Did([m EXCEPT !.lfs[p] = File(source.content, now)], p, "download")
\* _method_download, one staged file
DownloadOne(m, p, outside) ==
    LET expected == action_cache[p]
        n == m.lfs[p]
        H0 == [o |-> m.heap[p], err |-> FALSE]
        source == DownloadSource(m, p, outside)
    IN  IF m.err THEN m
        ELSE IF /\ n.kind = "file"
                /\ \/ get_mod_time_locally(n) >= get_modified_timestamp(H0, expected)
                   \/ compute_dropbox_hash(n.content) = get_dropbox_hash(H0, expected)
        THEN Skip(m, p)
        ELSE IF source.kind # "file" THEN Fail(m)
        ELSE IF n.kind = "dir" \/ ~ParentsExist(m.lfs, p) THEN Fail(m)
        ELSE Did([m EXCEPT !.lfs[p] = File(source.content, now)], p, "download")

_method_download(cache, outside) ==
    LET m1 == Loop(MakeLocalFolder, Folders(cache), Machine)
        DownloadStep(m, p) == DownloadOne(m, p, outside)
    IN  Loop(DownloadStep, Files(cache), m1)

\* _method_delete_local, first loop: one staged entry
DeleteLocalFile(m, p) ==
    LET expected == action_cache[p]
        n == m.lfs[p]
        H0 == [o |-> m.heap[p], err |-> FALSE]
        H1 == force_size(H0, expected, n)
        sizeDiffers == get_size_locally(n) # get_size(H1, expected)
        H2 == force_modified_timestamp(H1, expected, n)
        newer == get_modified_timestamp(H2, expected) < get_mod_time_locally(n)
    IN  IF m.err THEN m
        ELSE IF is_folder(H0, expected) THEN m
        ELSE IF n.kind = "none" THEN Fail(m)
        ELSE IF sizeDiffers THEN Skip(SetObjs(m, p, H1), p)
        ELSE IF newer THEN Skip(SetObjs(m, p, H2), p)
        ELSE IF n.kind = "dir" THEN Fail(m)
        ELSE Did([SetObjs(m, p, H2) EXCEPT !.lfs[p] = Absent], p, "unlink")

\* _method_delete_local, second loop: rmdir of one staged folder
DeleteLocalFolder(m, p) ==
    IF m.err THEN m
    ELSE IF m.lfs[p].kind # "dir" \/ HasChild(m.lfs, p) THEN Fail(m)
    ELSE Did([m EXCEPT !.lfs[p] = Absent], p, "rmdir")

_method_delete_local(cache) ==
    LET m1 == Loop(DeleteLocalFile, KeySeq(cache), Machine)
    IN  Loop(DeleteLocalFolder, SortByDepth(Folders(cache), TRUE), m1)

\* action(action_cache), line 458: the outcome m of the applier of phase k
Applied(k, m) ==
    /\ pc = PcOfApply(k)
    /\ lfs' = m.lfs
    /\ rfs' = m.rfs
    /\ cur' = [cur EXCEPT
                 !.done = [p \in Paths |-> @[p] \cup m.done[p]],
                 !.skipped = @ \cup Skips(PcOfApply(k), m.skips)]
    /\ IF m.err
       THEN pc' = "crashed" /\ UNCHANGED heap
       ELSE pc' = PcAfter(k) /\ heap' = m.heap
    /\ UNCHANGED <<config, aux, now, indices, snapshots, deltas, action_cache,
                   start, base>>

ApplyUpload == Applied(1, _method_upload(action_cache))
ApplyDeleteRemote == Applied(2, _method_delete_remote(action_cache))
ApplyDownload ==
    \E outside \in [Paths -> IF dropbox_root THEN {Absent} ELSE OutsideNodes] :
        Applied(3, _method_download(action_cache, outside))
ApplyDeleteLocal == Applied(4, _method_delete_local(action_cache))

\* sync(), lines 482-483: the snapshots become copies of the current
\* indices. LocalFile objects no index refers to any more are dropped and
\* the surviving object of a path is kept in slot 0.
Renamed(e) == IF e.cls = "L" THEN LocalRef(0) ELSE e
Live(p) == {e \in {local_index[p], remote_index[p]} : e.cls = "L"}
Compact(p) ==
    [s \in Slots |-> IF s = 0 /\ Live(p) # {}
                     THEN heap[p][(CHOOSE e \in Live(p) : TRUE).slot]
                     ELSE NullObj]

\* sync() with line 483 left out: only last_local_index is assigned
SyncEndLocalOnly ==
    /\ pc = "end"
    /\ last_local_index' = [p \in Paths |-> Renamed(local_index[p])]
    /\ local_index' = [p \in Paths |-> Renamed(local_index[p])]
    /\ remote_index' = [p \in Paths |-> Renamed(remote_index[p])]
    /\ heap' = [p \in Paths |-> Compact(p)]
    /\ locally_modified' = EmptyIndex
    /\ locally_removed' = EmptyIndex
    /\ remotely_modified' = EmptyIndex
    /\ remotely_removed' = EmptyIndex
    /\ action_cache' = EmptyIndex
    /\ cur' = [cur EXCEPT !.completed = TRUE]
    /\ base' = [valid |-> TRUE, lfs |-> lfs, rfs |-> rfs, done |-> cur.done,
                staged |-> UNION {cur.staged[k] : k \in 1..4},
                skipped |-> cur.skipped # {}]
    /\ pc' = "idle"
    /\ UNCHANGED <<config, aux, now, lfs, rfs, last_remote_index, start>>

SyncEnd ==
    /\ pc = "end"
    /\ last_local_index' = [p \in Paths |-> Renamed(local_index[p])]
    /\ last_remote_index' = [p \in Paths |-> Renamed(remote_index[p])]
    /\ local_index' = [p \in Paths |-> Renamed(local_index[p])]
    /\ remote_index' = [p \in Paths |-> Renamed(remote_index[p])]
    /\ heap' = [p \in Paths |-> Compact(p)]
    /\ locally_modified' = EmptyIndex
    /\ locally_removed' = EmptyIndex
    /\ remotely_modified' = EmptyIndex
    /\ remotely_removed' = EmptyIndex
    /\ action_cache' = EmptyIndex
    /\ cur' = [cur EXCEPT !.completed = TRUE]
    /\ base' = [valid |-> TRUE, lfs |-> lfs, rfs |-> rfs, done |-> cur.done,
                staged |-> UNION {cur.staged[k] : k \in 1..4},
                skipped |-> cur.skipped # {}]
    /\ pc' = "idle"
    /\ UNCHANGED <<config, aux, now, lfs, rfs, start>>

Next ==
    \/ LocalMkdir \/ LocalWrite \/ LocalRemove
    \/ RemoteMkdir \/ RemoteWrite \/ RemoteRemove
    \/ Tick
    \/ SyncBegin \/ Classify
    \/ ApplyUpload \/ ApplyDeleteRemote \/ ApplyDownload \/ ApplyDeleteLocal
    \/ SyncEnd

Spec == Init /\ [][Next]_vars

\* ---------------------------------------------------------------- sanity
\* every LocalFile reference of the snapshots is to slot 0, and the current
\* indices of one path never refer to two different objects of one pass
OneObjectPerPath ==
    /\ \A p \in Paths : \A e \in {last_local_index[p], last_remote_index[p]} :
           e.cls = "L" => e.slot = 0
    /\ pc = "end" => \A p \in Paths : Cardinality(Live(p)) <= 1

\* a file never exists without its folder
TreeShape == \A p \in Paths : (lfs[p].kind # "none" => ParentsExist(lfs, p))
                           /\ (rfs[p].kind # "none" => ParentsExist(rfs, p))


\* ------------------------------------------------------------------ claims
\* the state right after a pass that ran to its end
PassDone == pc = "idle" /\ cur.completed
\* the pass was ended by an exception
PassFailed == pc = "crashed"
\* p is on both sides with the same kind and content, or on neither
InSync(p) == lfs[p].kind = rfs[p].kind /\ lfs[p].content = rfs[p].content

\* C1: after every sync pass that runs to completion with debug = false,
\* every path exists on both sides with identical content or on neither.
C1_AllInSync == (PassDone /\ ~debug) => \A p \in Paths : InSync(p)



\* C1, for the passes in which no path was skipped as a conflict (where the
\* specification leaves no room for a difference between the sides)
C1_NoSkipAllInSync ==
    (PassDone /\ ~debug /\ cur.skipped = {}) => \A p \in Paths : InSync(p)

\* a pass is running, has just ended or was ended by an exception;
\* start.prev describes the completed pass before it
InPass == start.active
\* neither side was changed between the last completed pass and this one
Unchanged ==
    /\ start.prev.valid
    /\ start.lfs = start.prev.lfs
    /\ start.rfs = start.prev.rfs
NothingStaged == \A k \in 1..4 : cur.staged[k] = {}

\* C2: when neither side changed since a completed pass that skipped no
\* conflict, the next pass stages nothing in any of its four phases. The
\* claim names the configuration debug = true; this is the claim for it.
C2_Convergence ==
    (InPass /\ debug /\ Unchanged /\ ~start.prev.skipped) => NothingStaged

\* the pass has ended, by its last line or by an exception
AfterPass == start.active /\ pc \in {"idle", "crashed"}
Uploaded(p) == p \in cur.staged[1] /\ "upload" \in cur.done[p]

\* the last completed pass uploaded file p; since then p was modified
\* locally (later mtime, other content, other size), the remote is as it was
ModifiedLocally(p) ==
    /\ start.prev.valid
    /\ "upload" \in start.prev.done[p]
    /\ start.rfs = start.prev.rfs
    /\ start.lfs[p].kind = "file"
    /\ start.prev.lfs[p].kind = "file"
    /\ start.lfs[p].mtime > start.prev.lfs[p].mtime
    /\ start.lfs[p].content # start.prev.lfs[p].content
    /\ SizeOf(start.lfs[p].content) # SizeOf(start.prev.lfs[p].content)

\* C3: a file uploaded by a completed pass and then modified locally is
\* staged in phase (ADD, UP) and uploaded by the next pass; the remote
\* then holds the new local content.
C3_LocalModificationPropagates ==
    \A p \in FilePaths :
        (AfterPass /\ ModifiedLocally(p)) =>
            /\ pc = "idle"
            /\ Uploaded(p)
            /\ rfs[p].kind = "file"
            /\ rfs[p].content = start.lfs[p].content



Downloaded(p) == p \in cur.staged[3] /\ "download" \in cur.done[p]

\* the last completed pass downloaded file p; since then p was modified
\* remotely (later timestamp, other content), the local tree is as it was
ModifiedRemotely(p) ==
    /\ start.prev.valid
    /\ "download" \in start.prev.done[p]
    /\ start.lfs = start.prev.lfs
    /\ start.rfs[p].kind = "file"
    /\ start.prev.rfs[p].kind = "file"
    /\ start.rfs[p].mtime > start.prev.rfs[p].mtime
    /\ start.rfs[p].content # start.prev.rfs[p].content

\* C4: a file downloaded by a completed pass and then modified remotely is
\* staged in phase (ADD, DOWN) and downloaded by the next pass; the local
\* file then holds the new remote content and the remote file is as it was.
C4_RemoteModificationPropagates ==
    \A p \in FilePaths :
        (AfterPass /\ ModifiedRemotely(p)) =>
            /\ pc = "idle"
            /\ Downloaded(p)
            /\ lfs[p].kind = "file"
            /\ lfs[p].content = start.rfs[p].content
            /\ rfs[p] = start.rfs[p]

\* the last completed pass uploaded file p; since then p was deleted
\* locally and nothing else changed
DeletedLocally(p) ==
    /\ start.prev.valid
    /\ "upload" \in start.prev.done[p]
    /\ start.rfs = start.prev.rfs
    /\ start.prev.lfs[p].kind = "file"
    /\ start.lfs = [start.prev.lfs EXCEPT ![p] = Absent]

\* C5 (S4): a file uploaded by a completed pass and then deleted locally:
\* the next pass ends without error, stages the path in phase (DEL, UP) and
\* deletes the remote file; neither snapshot contains the path afterwards.
C5_LocalDeletionPropagates ==
    \A p \in FilePaths :
        (AfterPass /\ DeletedLocally(p)) =>
            /\ pc = "idle"
            /\ p \in cur.staged[2]
            /\ "delete_remote" \in cur.done[p]
            /\ rfs[p].kind = "none"
            /\ last_local_index[p] = None
            /\ last_remote_index[p] = None

\* the last completed pass downloaded file p; since then p was deleted
\* remotely and nothing else changed
DeletedRemotely(p) ==
    /\ start.prev.valid
    /\ "download" \in start.prev.done[p]
    /\ start.lfs = start.prev.lfs
    /\ start.prev.rfs[p].kind = "file"
    /\ start.rfs = [start.prev.rfs EXCEPT ![p] = Absent]

\* C6: a file downloaded by a completed pass and then deleted remotely is
\* staged in phase (DEL, DOWN) and removed locally by the next pass, and
\* it is not uploaded back.
C6_RemoteDeletionPropagates ==
    \A p \in FilePaths :
        (AfterPass /\ DeletedRemotely(p)) =>
            /\ pc = "idle"
            /\ p \in cur.staged[4]
            /\ "unlink" \in cur.done[p]
            /\ lfs[p].kind = "none"
            /\ "upload" \notin cur.done[p]
            /\ rfs[p].kind = "none"

\* folder p was on both sides and empty at the end of the last completed pass
EmptyOnBothSides(p) ==
    /\ start.prev.valid
    /\ start.prev.lfs[p].kind = "dir" /\ ~HasChild(start.prev.lfs, p)
    /\ start.prev.rfs[p].kind = "dir" /\ ~HasChild(start.prev.rfs, p)
RemovedLocallyOnly(p) ==
    /\ EmptyOnBothSides(p)
    /\ start.lfs = [start.prev.lfs EXCEPT ![p] = Absent]
    /\ start.rfs = start.prev.rfs
RemovedRemotelyOnly(p) ==
    /\ EmptyOnBothSides(p)
    /\ start.rfs = [start.prev.rfs EXCEPT ![p] = Absent]
    /\ start.lfs = start.prev.lfs
GoneOnBothSides(p) ==
    pc = "idle" /\ lfs[p].kind = "none" /\ rfs[p].kind = "none"

\* C7 as claimed: an empty folder on both sides that is removed on one side
\* is removed from the other side by the next pass, in both directions.
C7_FolderDeletionPropagates ==
    \A p \in FolderPaths :
        (AfterPass /\ (RemovedLocallyOnly(p) \/ RemovedRemotelyOnly(p)))
            => GoneOnBothSides(p)

\* C7, amended: the upward direction needs debug = false.
C7_FolderDeletionPropagatesUnlessDryRun ==
    \A p \in FolderPaths :
        /\ (AfterPass /\ RemovedLocallyOnly(p) /\ ~debug) => GoneOnBothSides(p)
        /\ (AfterPass /\ RemovedRemotelyOnly(p)) => GoneOnBothSides(p)

C7_WitnessUp ==
    \E p \in FolderPaths :
        /\ AfterPass /\ RemovedLocallyOnly(p) /\ ~debug
        /\ "delete_remote" \in cur.done[p]
C7_WitnessDown ==
    \E p \in FolderPaths :
        /\ AfterPass /\ RemovedRemotelyOnly(p)
        /\ "rmdir" \in cur.done[p]

\* at pass start p is a file on both sides, with different content
Conflict(p) ==
    /\ start.lfs[p].kind = "file"
    /\ start.rfs[p].kind = "file"
    /\ start.lfs[p].content # start.rfs[p].content
RemoteLater(p) == Conflict(p) /\ start.rfs[p].mtime > start.lfs[p].mtime
LocalLater(p) == Conflict(p) /\ start.lfs[p].mtime > start.rfs[p].mtime

\* C8 (S3): with different content on both sides and the remote timestamp
\* strictly later, the pass does not upload the path, stages and executes
\* its download, and ends with the remote content on both sides; with the
\* local timestamp strictly later, the pass uploads and does not download.
C8_LastWriterWins ==
    \A p \in FilePaths :
        /\ (AfterPass /\ RemoteLater(p)) =>
              /\ pc = "idle"
              /\ p \notin cur.staged[1]
              /\ "upload" \notin cur.done[p]
              /\ Downloaded(p)
              /\ lfs[p].kind = "file"
              /\ lfs[p].content = start.rfs[p].content
              /\ rfs[p] = start.rfs[p]
        /\ (AfterPass /\ LocalLater(p)) =>
              /\ pc = "idle"
              /\ Uploaded(p)
              /\ "download" \notin cur.done[p]
              /\ rfs[p].kind = "file"
              /\ rfs[p].content = start.lfs[p].content

\* the last completed pass left file p in sync (hash H, mtime T); since then
\* p was deleted locally and modified remotely to another hash at a later
\* time, and nothing else changed
DivergedDelete(p) ==
    /\ start.prev.valid
    /\ start.prev.lfs[p].kind = "file"
    /\ start.prev.rfs[p].kind = "file"
    /\ start.prev.lfs[p].content = start.prev.rfs[p].content
    /\ start.lfs = [start.prev.lfs EXCEPT ![p] = Absent]
    /\ start.rfs[p].kind = "file"
    /\ start.rfs = [start.prev.rfs EXCEPT ![p] = start.rfs[p]]
    /\ start.rfs[p].content # start.prev.rfs[p].content
    /\ start.rfs[p].mtime > start.prev.rfs[p].mtime
    /\ start.rfs[p].mtime > start.prev.lfs[p].mtime

\* C9 (S5): after a diverged delete the next pass neither stages nor
\* executes a remote delete of the path, downloads the remote version, and
\* both snapshots hold the remote version afterwards.
C9_DivergedDeleteIsSkipped ==
    \A p \in FilePaths :
        (AfterPass /\ DivergedDelete(p)) =>
            /\ pc = "idle"
            /\ p \notin cur.staged[2]
            /\ "delete_remote" \notin cur.done[p]
            /\ rfs[p] = start.rfs[p]
            /\ Downloaded(p)
            /\ last_local_index[p] = RemoteFile(start.rfs[p])
            /\ last_remote_index[p] = RemoteFile(start.rfs[p])

\* p exists only locally at pass start
OnlyLocal(p) == start.lfs[p].kind # "none" /\ start.rfs[p].kind = "none"
ExistsRemotely(p) ==
    /\ rfs[p].kind = start.lfs[p].kind
    /\ rfs[p].content = start.lfs[p].content
Recorded(p) == last_local_index[p] # None /\ last_remote_index[p] # None

CreatedRemotely(p) ==
    /\ start.prev.valid
    /\ start.prev.lfs = EmptyFS
    /\ start.prev.rfs = EmptyFS
    /\ start.lfs = EmptyFS
    /\ start.rfs[p].kind = "file"

\* C11 (S2): from a just-synced empty state, after the remote gained a file
\* with modification time T1, one pass creates the local file with the
\* remote content and with local mtime T1.
C11_CreateRemoteDownloads ==
    \A p \in FilePaths :
        (AfterPass /\ CreatedRemotely(p)) =>
            /\ pc = "idle"
            /\ lfs[p].kind = "file"
            /\ lfs[p].content = start.rfs[p].content
            /\ lfs[p].mtime = start.rfs[p].mtime

\* a sync pass is between its indexing and its last line
Running == pc \notin {"idle", "crashed"}
\* the last completed pass downloaded file p and the local file is as that
\* pass left it
DownloadedAndUntouched(p) ==
    /\ start.prev.valid
    /\ "download" \in start.prev.done[p]
    /\ start.lfs[p] = start.prev.lfs[p]

\* C12: a file downloaded by a pass and not modified locally afterwards does
\* not enter the local modified set of the next pass and is not staged for
\* upload by it.
C12_DownloadedIsUnchanged ==
    \A p \in FilePaths :
        (InPass /\ Running /\ DownloadedAndUntouched(p)) =>
            /\ locally_modified[p] = None
            /\ p \notin cur.staged[1]

\* the values an entry reports for the file n it describes
ReportedTime(H, e, n) ==
    get_modified_timestamp(force_modified_timestamp(H, e, n), e)
ReportedSize(H, e, n) == get_size(force_size(H, e, n), e)
\* p is in the snapshot local index and in the local index of the running
\* pass, and both entries report the same (mtime, size)
SameInBothIndices(p) ==
    LET H == [o |-> heap[p], err |-> FALSE]
    IN  /\ last_local_index[p] # None
        /\ local_index[p] # None
        /\ lfs[p].kind = "file"
        /\ ReportedTime(H, last_local_index[p], lfs[p])
              = ReportedTime(H, local_index[p], lfs[p])
        /\ ReportedSize(H, last_local_index[p], lfs[p])
              = ReportedSize(H, local_index[p], lfs[p])
\* the pass is between its indexing and the end of its upward ADD phase
UpwardAdd == InPass /\ pc \in {"c1", "a1", "c2"}

\* C13: a file in two consecutive local indices with identical (mtime, size)
\* is not in the local modified set and is not uploaded by the second pass,
\* whatever its content hash and whatever the remote holds.
C13_NoSpuriousUpload ==
    \A p \in FilePaths :
        (UpwardAdd /\ SameInBothIndices(p)) =>
            /\ locally_modified[p] = None
            /\ p \notin cur.staged[1]
            /\ "upload" \notin cur.done[p]

\* the upward ADD phase of a pass has run for a file with the same
\* (mtime, size) in both indices while the remote holds another content
C13_Witness ==
    /\ UpwardAdd /\ pc = "c2"
    /\ SameInBothIndices(pAB)
    /\ rfs[pAB].kind = "file"
    /\ rfs[pAB].content # lfs[pAB].content

\* _method_delete_local is about to run and the step removes the file at p
Unlinked(p) == pc = "a4" /\ lfs[p].kind = "file" /\ lfs'[p].kind = "none"
\* what the staged expected entry of p reports, against the live file
ExpectedSize(p) ==
    ReportedSize([o |-> heap[p], err |-> FALSE], action_cache[p], lfs[p])
ExpectedTime(p) ==
    ReportedTime([o |-> heap[p], err |-> FALSE], action_cache[p], lfs[p])
LiveEqualsExpected(p) ==
    /\ get_size_locally(lfs[p]) = ExpectedSize(p)
    /\ get_mod_time_locally(lfs[p]) = ExpectedTime(p)

\* C14 as claimed: _method_delete_local unlinks no local file whose live
\* size or live mtime differs, in either direction, from the size or mtime
\* of the staged expected entry.
C14_DeleteSafety ==
    [][\A p \in FilePaths : Unlinked(p) => LiveEqualsExpected(p)]_vars

\* phase (DEL, UP) of the running pass has finished
\* p is in the local removed set and a remote file was at p at pass start
RemovedWithRemoteFile(p) ==
    /\ locally_removed[p] # None
    /\ start.rfs[p].kind = "file"
SkippedUpwardDelete(p) == [at |-> "c2", path |-> p] \in cur.skipped
\* the remote file at p matches the removed entry: same hash, not later
MatchesRemoved(p) ==
    LET H == [o |-> heap[p], err |-> FALSE]
    IN  /\ get_dropbox_hash(H, locally_removed[p])
              = compute_dropbox_hash(start.rfs[p].content)
        /\ get_modified_timestamp(H, locally_removed[p]) >= start.rfs[p].mtime

\* C15: a remote file at a path of the local removed set is removed during
\* the pass only if its hash equals the removed entry's and its mtime is not
\* later; a remote file that phase (DEL, UP) skips as a conflict is still on
\* the remote, with its content, afterwards.
C15_DeleteOnlyMatching ==
    \A p \in FilePaths :
        (InPass /\ pc \in {"c3", "a3", "c4", "a4", "end"}
                /\ RemovedWithRemoteFile(p)) =>
            /\ rfs[p].kind = "none" => MatchesRemoved(p)
            /\ SkippedUpwardDelete(p) => rfs[p] = start.rfs[p]

InApplier == pc \in {"a1", "a2", "a3", "a4"}

\* C16: a failure on a single path during an applier step does not abort the
\* sync pass: the step that runs an applier always hands over to the next
\* phase, it never ends the pass by an exception.
C16_FailureIsolation ==
    [][InApplier => pc' \in {"c2", "c3", "c4", "end"}]_vars

\* the LocalFile object behind the snapshot entry of p
SnapshotObject(p) == heap[p][last_local_index[p].slot]
\* the file at p as the last completed pass indexed it and left it
IndexedFile(p) == start.prev.lfs[p]
\* every value the object has read so far is the value of the indexed file
ReportsIndexedValues(p) ==
    LET o == SnapshotObject(p)
    IN  /\ o.timestamp # -1 => o.timestamp = get_mod_time_locally(IndexedFile(p))
        /\ o.size # -1 => o.size = get_size_locally(IndexedFile(p))
        /\ o.dropbox_hash # NoHash =>
              o.dropbox_hash = compute_dropbox_hash(IndexedFile(p).content)

\* C17: entries are immutable: what the snapshot entry of a file reports
\* during the next pass is what the file was when the last pass indexed it,
\* whatever happened to the file since; and the snapshots are not changed
\* by what a pass does to the current indices.
C17_EntriesImmutable ==
    \A p \in FilePaths :
        (InPass /\ start.prev.valid
                /\ last_local_index[p].cls = "L"
                /\ IndexedFile(p).kind = "file") => ReportsIndexedValues(p)

SnapshotsAssigned ==
    last_local_index' # last_local_index \/ last_remote_index' # last_remote_index
\* C18: the snapshots are assigned only by the last step of sync(), after
\* all four phases, both together and to copies of the current indices; a
\* pass that stops earlier leaves both as they were; and a pass begins only
\* when no pass is running.
C18_SnapshotUpdate ==
    [][/\ SnapshotsAssigned =>
            /\ pc = "end" /\ pc' = "idle"
            /\ last_local_index' = [p \in Paths |-> Renamed(local_index[p])]
            /\ last_remote_index' = [p \in Paths |-> Renamed(remote_index[p])]
       /\ pc' = "crashed" => UNCHANGED snapshots
       /\ pc' = "c1" => pc = "idle"]_vars

\* a pass has assigned both snapshots, and they differ from each other
C18_Witness ==
    /\ PassDone
    /\ last_local_index # EmptyIndex
    /\ last_remote_index # EmptyIndex
    /\ last_local_index # last_remote_index

UpwardOps == {"create_folder", "upload", "delete_remote"}
\* C19: with debug = true the upward phases classify but run no applier and
\* change nothing on the remote store, in any pass; the downward phases run
\* their appliers on whatever they staged, as with debug = false.
C19_DebugMode ==
    [][/\ debug =>
            /\ pc \notin {"a1", "a2"}
            /\ \A p \in Paths : cur.done[p] \cap UpwardOps = {}
            /\ Running => rfs' = rfs
       /\ \A k \in {3, 4} :
            (pc = PcOfClassify(k) /\ pc' # "crashed" /\ cur'.staged[k] # {})
                => pc' = PcOfApply(k)]_vars

\* a dry run has staged upward work and is running a downward applier
C19_Witness ==
    /\ debug
    /\ pc \in {"a3", "a4"}
    /\ cur.staged[1] \cup cur.staged[2] # {}

\* what the step _sync_action(k) of the model computes, path by path
ClassifiedPerPath(k) ==
    LET c == [p \in Paths |-> ClassifyAt(k, p)]
    IN  IF \E p \in Paths : c[p].H.err
        THEN [err |-> TRUE, cache |-> EmptyIndex, dst |-> EmptyIndex]
        ELSE [err |-> FALSE,
              cache |-> [p \in Paths |->
                            IF c[p].stage THEN SourceChanges(k)[p] ELSE None],
              dst |-> [p \in Paths |-> c[p].dst]]

\* C20: for fixed indices and snapshots a call of _sync_action yields the
\* same action_cache and the same opposite index in every iteration order
\* of its change set (and so on every re-run from the same state).
C20_ReconcilerDeterminism ==
    \A k \in 1..4 :
        pc = PcOfClassify(k) =>
            \A order \in Orders :
                ClassifyInOrder(k, order) = ClassifiedPerPath(k)

\* a phase is about to classify a change set of two entries and stages both
C20_Witness ==
    \E k \in 1..4 :
        /\ pc = PcOfClassify(k)
        /\ Keys(SourceChanges(k)) = Paths
        /\ ~ClassifiedPerPath(k).err
        /\ Keys(ClassifiedPerPath(k).cache) = Paths

\* ------------------------------------------------------------------- C21
\* the order of the four calls in sync(), and the return
PhaseOrder == <<"c1", "c2", "c3", "c4", "end">>

\* the entry an ADD phase before phase k has written into the index that
\* phase k reads, for a path that had no entry there when the pass started
WrittenBefore(k, p) ==
    IF IsUp(k)
    THEN k > 1 /\ p \in cur.staged[1] /\ start.rfs[p].kind = "none"
    ELSE k > 3 /\ p \in cur.staged[3] /\ start.lfs[p].kind = "none"

\* C21: the four phases run in the order (ADD, UP), (DEL, UP), (ADD, DOWN),
\* (DEL, DOWN); the applier of a phase has returned before the next phase
\* classifies; and the classification of a phase reads the opposite index
\* with the entries the phases before it have written.
C21_PhaseOrder ==
    [][/\ pc' = "c1" => pc = "idle"
       /\ \A k \in 1..4 :
            /\ pc = PcOfClassify(k)
                  => pc' \in {PcOfApply(k), PhaseOrder[k + 1], "crashed"}
            /\ pc = PcOfApply(k) => pc' \in {PhaseOrder[k + 1], "crashed"}
            /\ pc' = PcOfApply(k) => pc = PcOfClassify(k)
            /\ (pc = PcOfClassify(k) /\ pc' # "crashed")
                  => \A p \in Paths :
                        (WrittenBefore(k, p) /\ SourceChanges(k)[p] = None)
                           => /\ ClassifyStart(k).dst[p] # None
                              /\ ClassifiedPerPath(k).dst[p]
                                    = IF k = 2 THEN locally_modified[p]
                                      ELSE remotely_modified[p]]_vars

\* a pass has run two appliers and is at its end
C21_Witness ==
    /\ pc = "end"
    /\ ~debug
    /\ Cardinality({k \in 1..4 : cur.staged[k] # {}}) >= 2
    /\ \E p \in Paths : WrittenBefore(4, p) \/ WrittenBefore(2, p)

\* --------------------------------------- one applier on its own, wider tree
\* The order of the calls an applier issues, on a tree with nested and
\* sibling folders: a/, a/b, a/c/, a/c/d/, ab/, ab/e/.
pAC == <<"a", "/", "c">>
pACD == <<"a", "/", "c", "/", "d">>
pAb == <<"a", "b">>
pAbE == <<"a", "b", "/", "e">>
WidePaths == {pA, pAB, pAC, pACD, pAb, pAbE}
WideFiles == {pAB}
WideFolders == WidePaths \ WideFiles

\* the directory that lists p; <<>> is local_folder itself
Parent(p) ==
    IF depth(p) = 0 THEN <<>>
    ELSE CHOOSE q \in WidePaths : IsAncestor(q, p) /\ depth(q) + 1 = depth(p)

Trees == {T \in SUBSET WidePaths : \A p \in T : depth(p) > 0 => Parent(p) \in T}

\* the sequences that hold every element of S once
Perms(S) == {w \in [1..Cardinality(S) -> S] :
                \A i, j \in DOMAIN w : w[i] = w[j] => i = j}

\* local_folder.rglob("*"): the entries of one directory come together, in
\* the order of the file system, and after the directory itself
RglobOrders(T) ==
    {w \in Perms(T) :
        /\ \A i, j, k \in DOMAIN w :
              (i < j /\ j < k /\ Parent(w[i]) = Parent(w[k]))
                 => Parent(w[j]) = Parent(w[i])
        /\ \A i, j \in DOMAIN w : w[i] = Parent(w[j]) => i < j}

\* the keys of locally_modified staged by (ADD, UP): _get_local_index fills
\* its dict in rglob order, _get_modified and the loop of _sync_action build
\* their dicts by iterating the one before
UploadCaches ==
    UNION {{SelectSeq(w, LAMBDA p : p \in S) : S \in SUBSET T, w \in RglobOrders(T)} :
              T \in Trees}

\* the keys of a removed set: the order of a snapshot, which is the order of
\* an index after both sides have written into it
DeleteCaches == UNION {Perms(S) : S \in SUBSET WidePaths}

Call(op, p) == [op |-> op, path |-> p]
CallsFor(op, seq) == [i \in 1..Len(seq) |-> Call(op, seq[i])]
Without(seq, skip) == SelectSeq(seq, LAMBDA p : p \notin skip)
WFolders(seq) == SelectSeq(seq, LAMBDA p : p \in WideFolders)
WFiles(seq) == SelectSeq(seq, LAMBDA p : p \in WideFiles)

\* the two loops of _method_upload exchanged
UploadCallsFilesFirst(seq, skip) ==
    CallsFor("files_upload", Without(WFiles(seq), skip))
        \o CallsFor("files_create_folder_v2", Without(WFolders(seq), skip))
\* _method_upload: skip holds the folders that exist already and the files
\* that are equal or not older on the remote
UploadCalls(seq, skip) ==
    CallsFor("files_create_folder_v2", Without(WFolders(seq), skip))
        \o CallsFor("files_upload", Without(WFiles(seq), skip))

\* _delete_batch: the entries go out in one batch, which is polled until it
\* is complete; nothing is submitted or polled for an empty list
DeleteBatchCalls(seq) ==
    IF seq = <<>> THEN <<>>
    ELSE CallsFor("files_delete_batch", seq)
            \o <<Call("files_delete_batch_check", <<>>)>>

\* _get_folders_to_delete_remotely: ascending depth, a folder is left out
\* when its path string starts with one that is queued already
FoldersToDeleteRemotely(seq, skip) ==
    LET sorted == SortByDepth(seq, FALSE)
        f[i \in 0..Len(sorted)] ==
            IF i = 0 THEN <<>>
            ELSE IF \/ sorted[i] \in skip
                    \/ \E j \in DOMAIN f[i - 1] : startswith(sorted[i], f[i - 1][j])
            THEN f[i - 1]
            ELSE Append(f[i - 1], sorted[i])
    IN  f[Len(sorted)]

\* _method_delete_remote: skip holds the entries whose probe shows a conflict
DeleteRemoteCalls(seq, skip) ==
    DeleteBatchCalls(Without(WFiles(seq), skip))
        \o DeleteBatchCalls(FoldersToDeleteRemotely(WFolders(seq), skip))

\* the folders removed in the order of the dict
DeleteLocalCallsUnsorted(seq, skip) ==
    CallsFor("unlink", Without(WFiles(seq), skip))
        \o CallsFor("rmdir", WFolders(seq))
\* _method_delete_local: skip holds the files whose size or mtime differs
DeleteLocalCalls(seq, skip) ==
    CallsFor("unlink", Without(WFiles(seq), skip))
        \o CallsFor("rmdir", SortByDepth(WFolders(seq), TRUE))

InitAppliers ==
    /\ debug = FALSE
    /\ dropbox_root = TRUE
    /\ Constructed
    /\ NoUpload
    /\ ProbeAnswers
    /\ NoBatch
    /\ NoHashing
    /\ staged_order = <<>>
    /\ issued = <<>>
    /\ apc = "idle"

Stage(caches, applier) ==
    /\ apc = "idle"
    /\ staged_order' \in caches
    /\ apc' = applier
    /\ UNCHANGED <<sync_vars, more_vars, upload_vars, issued>>

StageUpload == Stage(UploadCaches, "upload")
StageDeleteRemote == Stage(DeleteCaches, "delete_remote")
StageDeleteLocal == Stage(DeleteCaches, "delete_local")

Issue(applier, results) ==
    /\ apc = applier
    /\ issued' \in results
    /\ apc' = "done"
    /\ UNCHANGED <<sync_vars, more_vars, upload_vars, staged_order>>

\* the sets of entries the probes of an applier can find in conflict
Conflicts == SUBSET {staged_order[i] : i \in DOMAIN staged_order}

IssueUpload ==
    Issue("upload", {UploadCalls(staged_order, skip) : skip \in Conflicts})
IssueDeleteRemote ==
    Issue("delete_remote", {DeleteRemoteCalls(staged_order, skip) : skip \in Conflicts})
IssueDeleteLocal ==
    Issue("delete_local", {DeleteLocalCalls(staged_order, skip) : skip \in Conflicts})

NextAppliers ==
    \/ StageUpload
    \/ StageDeleteRemote
    \/ StageDeleteLocal
    \/ IssueUpload
    \/ IssueDeleteRemote
    \/ IssueDeleteLocal

SpecAppliers == InitAppliers /\ [][NextAppliers]_vars

\* ------------------------------------------------------------------- C22
IssuedAt(op) == {i \in DOMAIN issued : issued[i].op = op}

FoldersBeforeFiles ==
    \A i \in IssuedAt("files_create_folder_v2"), j \in IssuedAt("files_upload") :
        i < j
ParentsBeforeChildren ==
    \A i, j \in IssuedAt("files_create_folder_v2") :
        IsAncestor(issued[i].path, issued[j].path) => i < j
ShortestPathFirst ==
    \A i, j \in IssuedAt("files_create_folder_v2") :
        i < j => depth(issued[i].path) <= depth(issued[j].path)
\* every staged folder above an uploaded file has been dealt with before
NoUploadBeforeItsFolder ==
    \A j \in IssuedAt("files_upload") :
        \A q \in WideFolders :
            IsAncestor(q, issued[j].path)
               => \A i \in IssuedAt("files_create_folder_v2") :
                     issued[i].path = q => i < j

\* C22 as stated: within one upload phase every folder creation is issued
\* before any file upload, and the staged folders are created shortest path
\* first, parents before children, so no file is uploaded into a folder
\* whose creation has not been issued yet.
C22_UploadOrdering ==
    apc = "done"
        => /\ FoldersBeforeFiles
           /\ ShortestPathFirst
           /\ ParentsBeforeChildren
           /\ NoUploadBeforeItsFolder

\* C22, amended: every folder creation is issued before any file upload and
\* a staged folder is created before every staged folder beneath it (the
\* order is that of the local directory walk, not that of the path lengths),
\* so no file is uploaded into a folder whose creation has not been issued.
C22_UploadOrderingOfWalk ==
    apc = "done"
        => /\ FoldersBeforeFiles
           /\ ParentsBeforeChildren
           /\ NoUploadBeforeItsFolder

\* an upload phase has created a/, a/c/ and a/c/d/ and then uploaded a/b
C22_Witness ==
    /\ apc = "done"
    /\ {pA, pAC, pACD} \subseteq {issued[i].path : i \in IssuedAt("files_create_folder_v2")}
    /\ \E j \in IssuedAt("files_upload") : issued[j].path = pAB

\* ------------------------------------------------------------------- C23
BatchPolledBetween(i, j) ==
    \E k \in IssuedAt("files_delete_batch_check") : i < k /\ k < j

\* C23: delete-remote submits every file deletion and polls the batch to
\* completion before it submits a folder deletion; delete-local unlinks
\* every file before it removes a folder and removes the folders in
\* descending depth, a folder after the staged files and folders beneath it.
C23_DeleteOrdering ==
    apc = "done"
        => /\ \A i, j \in IssuedAt("files_delete_batch") :
                 (issued[i].path \in WideFiles /\ issued[j].path \in WideFolders)
                    => i < j /\ BatchPolledBetween(i, j)
           /\ \A i \in IssuedAt("unlink"), j \in IssuedAt("rmdir") : i < j
           /\ \A i, j \in IssuedAt("rmdir") :
                 /\ i < j => depth(issued[i].path) >= depth(issued[j].path)
                 /\ IsAncestor(issued[j].path, issued[i].path) => i < j
           /\ \A i \in IssuedAt("unlink"), j \in IssuedAt("rmdir") :
                 IsAncestor(issued[j].path, issued[i].path) => i < j

\* delete-local has unlinked a/b and removed a/c/d/, a/c/ and a/, the dict
\* having listed a/ first
C23_Witness ==
    /\ apc = "done"
    /\ Len(staged_order) > 0
    /\ staged_order[1] = pA
    /\ \E i \in IssuedAt("unlink") : issued[i].path = pAB
    /\ {pA, pAC, pACD} \subseteq {issued[i].path : i \in IssuedAt("rmdir")}

\* ------------------------------------------- one call of _upload_file alone
\* Sizes and offsets are in MiB (megabyte = 1024 * 1024 in the source).
MaxSize == 40       \* the file holds 0..MaxSize MiB
ChunkSize == 8      \* chunk_size = 8 * megabyte

ClientCall(op, offset, len, commit) ==
    [op |-> op, offset |-> offset, len |-> len, commit |-> commit]

\* len(file.read(chunk_size)) at the current position
ReadChunk ==
    IF file_size - byte_position < ChunkSize THEN file_size - byte_position
    ELSE ChunkSize

InitUploadFile ==
    /\ debug = FALSE
    /\ dropbox_root = TRUE
    /\ Constructed
    /\ NoApplier
    /\ ProbeAnswers
    /\ NoBatch
    /\ NoHashing
    /\ file_size \in 0..MaxSize
    /\ byte_position = 0
    /\ calls = <<>>
    /\ upc = "open"

\* file_size < chunk_size: files_upload(file.read(), db_target, overwrite)
FilesUpload ==
    /\ upc = "open"
    /\ file_size < ChunkSize
    /\ calls' = Append(calls, ClientCall("files_upload", 0,
                                         file_size - byte_position, TRUE))
    /\ byte_position' = file_size
    /\ upc' = "closed"
    /\ UNCHANGED <<sync_vars, more_vars, applier_vars, file_size>>

\* files_upload_session_start(file.read(chunk_size))
SessionStart ==
    /\ upc = "open"
    /\ ~(file_size < ChunkSize)
    /\ calls' = Append(calls, ClientCall("files_upload_session_start", 0,
                                         ReadChunk, FALSE))
    /\ byte_position' = byte_position + ReadChunk
    /\ upc' = "loop"
    /\ UNCHANGED <<sync_vars, more_vars, applier_vars, file_size>>

\* one round of the while loop that appends
SessionAppend ==
    /\ upc = "loop"
    /\ byte_position < file_size
    /\ byte_position + ReadChunk < file_size
    /\ calls' = Append(calls, ClientCall("files_upload_session_append_v2",
                                         byte_position, ReadChunk, FALSE))
    /\ byte_position' = byte_position + ReadChunk
    /\ UNCHANGED <<sync_vars, more_vars, applier_vars, file_size, upc>>

\* one round of the while loop that commits to db_target with overwrite
SessionFinish ==
    /\ upc = "loop"
    /\ byte_position < file_size
    /\ ~(byte_position + ReadChunk < file_size)
    /\ calls' = Append(calls, ClientCall("files_upload_session_finish",
                                         byte_position, ReadChunk, TRUE))
    /\ byte_position' = byte_position + ReadChunk
    /\ UNCHANGED <<sync_vars, more_vars, applier_vars, file_size, upc>>

\* the while condition is false: the with block closes the file
LoopExit ==
    /\ upc = "loop"
    /\ ~(byte_position < file_size)
    /\ upc' = "closed"
    /\ UNCHANGED <<sync_vars, more_vars, applier_vars, file_size, byte_position, calls>>

NextUploadFile ==
    \/ FilesUpload
    \/ SessionStart
    \/ SessionAppend
    \/ SessionFinish
    \/ LoopExit

SpecUploadFile == InitUploadFile /\ [][NextUploadFile]_vars

\* ------------------------------------------------------------------- C24
CallsOf(op) == {i \in DOMAIN calls : calls[i].op = op}
RECURSIVE BytesBefore(_)
BytesBefore(i) == IF i <= 1 THEN 0 ELSE BytesBefore(i - 1) + calls[i - 1].len
BytesSent == BytesBefore(Len(calls) + 1)

\* C24: for a file of at least 8 MiB _upload_file starts a session with the
\* first 8 MiB, appends the chunks after it and ends with session_finish as
\* the last call; every chunk is at most 8 MiB, the offset of every append
\* and of the finish is the number of bytes sent before it, and the finish
\* commits to the target path; 20 MiB go out as start (8), append at 8 (8),
\* finish at 16 (4).
C24_ChunkedUpload ==
    (upc = "closed" /\ file_size >= ChunkSize)
        => /\ Len(calls) >= 2
           /\ calls[1] = ClientCall("files_upload_session_start", 0, ChunkSize, FALSE)
           /\ calls[Len(calls)].op = "files_upload_session_finish"
           /\ calls[Len(calls)].commit
           /\ \A i \in 2..(Len(calls) - 1) :
                 calls[i].op = "files_upload_session_append_v2"
           /\ \A i \in DOMAIN calls :
                 /\ calls[i].len <= ChunkSize
                 /\ calls[i].offset = BytesBefore(i)
           /\ file_size = 20
                 => calls = <<ClientCall("files_upload_session_start", 0, 8, FALSE),
                              ClientCall("files_upload_session_append_v2", 8, 8, FALSE),
                              ClientCall("files_upload_session_finish", 16, 4, TRUE)>>

\* ------------------------------------------------------------------- C30
\* C30: every upload commits exactly once, whatever the size: below 8 MiB
\* one files_upload with the whole content; from 8 MiB on (8 MiB and its
\* multiples included) one session_start and one session_finish; and the
\* bytes sent over all calls are the bytes of the file.
C30_CommitsOnce ==
    upc = "closed"
        => /\ Cardinality({i \in DOMAIN calls : calls[i].commit}) = 1
           /\ BytesSent = file_size
           /\ file_size < ChunkSize
                 => calls = <<ClientCall("files_upload", 0, file_size, TRUE)>>
           /\ file_size >= ChunkSize
                 => /\ Cardinality(CallsOf("files_upload_session_start")) = 1
                    /\ Cardinality(CallsOf("files_upload_session_finish")) = 1
                    /\ CallsOf("files_upload") = {}

\* ------------------------------------------------------------------- C25
\* the first run's entry of p is what the snapshot holds: a pass has run to
\* its end on this tree and the tree is as that pass found it
SecondRunOn(p) ==
    /\ PassDone
    /\ lfs = start.lfs
    /\ lfs[p].kind # "none"
    /\ last_local_index[p].cls = "L"

Reused(p) ==
    LET r == GetLocalIndexAt(p)
    IN  /\ ~r.H.err
        /\ r.entry = last_local_index[p]
        /\ FileInfoEq(r.H, r.entry, last_local_index[p], lfs[p]).eq
        /\ \A s \in Slots : r.H.o[s].dropbox_hash = heap[p][s].dropbox_hash

\* C25: a second run of _get_local_index on the unchanged tree yields
\* index-equal entries and reuses the entry object of every path, file or
\* folder, without computing a content hash.
C25_IndexIdempotence ==
    \A p \in Paths : SecondRunOn(p) => Reused(p)

\* ------------------------------------------------------------------- C26
\* the mtime an entry of path p reports
MTime(p, e) == get_modified_timestamp([o |-> heap[p], err |-> FALSE], e)

\* modified and removed are the deltas of current against snapshot
IsDelta(current, snapshot, modified, removed) ==
    \A p \in Paths :
        /\ modified[p] # None
              <=> /\ current[p] # None
                  /\ \/ snapshot[p] = None
                     \/ MTime(p, snapshot[p]) < MTime(p, current[p])
        /\ modified[p] # None => modified[p] = current[p]
        /\ removed[p] # None <=> (snapshot[p] # None /\ current[p] = None)
        /\ removed[p] # None => removed[p] = snapshot[p]
        /\ ~(modified[p] # None /\ removed[p] # None)
        /\ (current[p] # None /\ snapshot[p] # None
               /\ MTime(p, snapshot[p]) = MTime(p, current[p]))
              => (modified[p] = None /\ removed[p] = None)

\* C26: on each side, modified holds exactly the paths of the current index
\* that the snapshot lacks or whose snapshot mtime is strictly less than the
\* current one, mapped to the current entry; removed holds exactly the
\* snapshot's paths that the current index lacks, mapped to the snapshot's
\* entry; the two are disjoint, and a path with equal mtimes is in neither.
C26_DeltaComputation ==
    pc = "c1"
        => /\ IsDelta(local_index, last_local_index,
                      locally_modified, locally_removed)
           /\ IsDelta(remote_index, last_remote_index,
                      remotely_modified, remotely_removed)

\* the deltas have just been computed: one known path is newer than its
\* snapshot entry, one known path has the mtime of its snapshot entry
C26_Witness ==
    /\ pc = "c1"
    /\ \E p \in Paths :
          /\ last_local_index[p] # None
          /\ locally_modified[p] # None
    /\ \E p \in Paths :
          /\ last_remote_index[p] # None
          /\ remote_index[p] # None
          /\ ~is_folder([o |-> heap[p], err |-> FALSE], remote_index[p])
          /\ remotely_modified[p] = None

\* ------------------------------------------------------------------- C27
\* timestamp, size and hash of entry e of path p, all read
AllRead(H, e, n) ==
    force_dropbox_hash(force_size(force_modified_timestamp(H, e, n), e, n), e, n)

IndexDst(k) == IF IsUp(k) THEN remote_index ELSE local_index

\* what the claim says an ADD phase does with the entry src of path p
AddOutcome(k, p) ==
    LET src == SourceChanges(k)[p]
        dst == IndexDst(k)[p]
        H0 == [o |-> heap[p], err |-> FALSE]
        H == IF dst = None THEN H0
             ELSE AllRead(AllRead(H0, src, lfs[p]), dst, lfs[p])
        older == get_modified_timestamp(H, dst) < get_modified_timestamp(H, src)
        differs == \/ get_size(H, dst) # get_size(H, src)
                   \/ get_dropbox_hash(H, dst) # get_dropbox_hash(H, src)
    IN  IF dst = None THEN [stage |-> TRUE, dst |-> src]
        ELSE IF is_folder(H0, src) /\ is_folder(H0, dst)
        THEN [stage |-> FALSE, dst |-> dst]
        ELSE IF ~H.err /\ older /\ differs THEN [stage |-> TRUE, dst |-> src]
        ELSE [stage |-> FALSE, dst |-> dst]

\* C27: an ADD phase stages an entry and writes it into the opposite index
\* when the opposite index has no entry for the path, or when the opposite
\* entry is older and differs in size or hash; when both are folders, and
\* in every other case, nothing is staged and the index is unchanged.
C27_AddClassification ==
    \A k \in {1, 3} :
        pc = PcOfClassify(k)
            => /\ ~ClassifiedPerPath(k).err
               /\ \A p \in Paths :
                     SourceChanges(k)[p] # None
                        => /\ (ClassifiedPerPath(k).cache[p] # None)
                                 = AddOutcome(k, p).stage
                           /\ ClassifiedPerPath(k).cache[p] # None
                                 => ClassifiedPerPath(k).cache[p] = SourceChanges(k)[p]
                           /\ ClassifiedPerPath(k).dst[p] = AddOutcome(k, p).dst

\* an ADD phase is about to overwrite the older and different entry of a
\* file in the opposite index
C27_Witness ==
    \E k \in {1, 3}, p \in FilePaths :
        /\ pc = PcOfClassify(k)
        /\ SourceChanges(k)[p] # None
        /\ IndexDst(k)[p] # None
        /\ AddOutcome(k, p).stage

\* ------------------------------------------------------------------- C28
\* what the claim says a DEL phase does with the removed entry src of p
DelOutcome(k, p) ==
    LET src == SourceChanges(k)[p]
        dst == IndexDst(k)[p]
        H0 == [o |-> heap[p], err |-> FALSE]
        H == IF dst = None THEN H0
             ELSE AllRead(AllRead(H0, src, lfs[p]), dst, lfs[p])
    IN  IF dst = None THEN [stage |-> FALSE, dst |-> None]
        ELSE IF /\ get_dropbox_hash(H, dst) = get_dropbox_hash(H, src)
                /\ get_modified_timestamp(H, src) >= get_modified_timestamp(H, dst)
        THEN [stage |-> TRUE, dst |-> None]
        ELSE [stage |-> FALSE, dst |-> dst]

DelClassifiedAsClaimed(k) ==
    \A p \in Paths :
        SourceChanges(k)[p] # None
           => /\ (ClassifiedPerPath(k).cache[p] # None) = DelOutcome(k, p).stage
              /\ ClassifiedPerPath(k).cache[p] # None
                    => ClassifiedPerPath(k).cache[p] = SourceChanges(k)[p]
              /\ ClassifiedPerPath(k).dst[p] = DelOutcome(k, p).dst

\* C28: a DEL phase stages nothing for a path the opposite index lacks;
\* it stages the entry and removes the path from the opposite index when
\* the hashes are equal and the removed entry is not older; otherwise it
\* stages nothing and the index keeps its entry. Classifying a removed
\* entry never fails, also when its file no longer exists on disk.
C28_DelClassification ==
    \A k \in {2, 4} :
        pc = PcOfClassify(k)
            => /\ ~ClassifiedPerPath(k).err
               /\ DelClassifiedAsClaimed(k)

\* ------------------------------------------------------------------- C29
\* phase (ADD, UP) has staged p, which the remote side did not hold when
\* the pass started
UpwardAddOfNew(p) ==
    /\ start.active
    /\ p \in cur.staged[1]
    /\ start.rfs[p].kind = "none"

\* C29: when phase (ADD, UP) stages p because the remote index had no entry
\* for p at the start of the pass, phase (DEL, DOWN) of that pass does not
\* stage p and the local file at p is not deleted in that pass.
C29_UpwardAddBlocksDownwardDelete ==
    \A p \in Paths :
        UpwardAddOfNew(p)
           => /\ p \notin cur.staged[4]
              /\ cur.done[p] \cap {"unlink", "rmdir"} = {}
              /\ (start.lfs[p].kind # "none" /\ pc # "idle") => lfs[p].kind # "none"

\* ------------------------------------------- one call of _delete_batch alone
MaxEntries == 2001          \* file_entries holds 0..MaxEntries DeleteArgs
max_batch_size == 1000

JobStates == {"in_progress", "complete", "failed"}

InitDeleteBatch ==
    /\ debug = FALSE
    /\ dropbox_root = TRUE
    /\ Constructed
    /\ NoApplier
    /\ NoUpload
    /\ ProbeAnswers
    /\ NoHashing
    /\ len_files \in 0..MaxEntries
    /\ launched = <<>>
    /\ job_status = <<>>
    /\ dpc = "launch"

\* one round of for i in range(0, len_files, max_batch_size): the slice
\* file_entries[i:i + max_batch_size] goes to files_delete_batch, whose
\* job id is added to ids
LaunchBatch ==
    /\ dpc = "launch"
    /\ LET i == Len(launched) * max_batch_size
           j == IF i + max_batch_size < len_files THEN i + max_batch_size
                ELSE len_files
       IN  /\ i < len_files
           /\ launched' = Append(launched, [first |-> i, last |-> j - 1])
           /\ job_status' = Append(job_status, "in_progress")
    /\ UNCHANGED <<sync_vars, applier_vars, upload_vars, probe_vars, hash_vars,
                   len_files, dpc>>

\* the range is exhausted
AllLaunched ==
    /\ dpc = "launch"
    /\ ~(Len(launched) * max_batch_size < len_files)
    /\ dpc' = "poll"
    /\ UNCHANGED <<sync_vars, applier_vars, upload_vars, probe_vars, hash_vars,
                   len_files, launched, job_status>>

\* one round of while True: files_delete_batch_check for every id; break
\* when no status fails is_complete()
PollJobs ==
    /\ dpc \in {"poll", "poll_again"}
    /\ dpc' = IF \A i \in DOMAIN job_status : job_status[i] = "complete"
              THEN "returned" ELSE "sleep"
    /\ UNCHANGED <<sync_vars, applier_vars, upload_vars, probe_vars, hash_vars,
                   len_files, launched, job_status>>

\* time.sleep(1)
Sleep ==
    /\ dpc = "sleep"
    /\ dpc' = "poll_again"
    /\ UNCHANGED <<sync_vars, applier_vars, upload_vars, probe_vars, hash_vars,
                   len_files, launched, job_status>>

\* the remote store ends a job, while batches are launched or between two
\* rounds of checks: DeleteBatchJobStatus complete or failed
JobEnds ==
    /\ dpc \in {"launch", "sleep"}
    /\ \E i \in DOMAIN job_status, st \in JobStates \ {"in_progress"} :
          /\ job_status[i] = "in_progress"
          /\ job_status' = [job_status EXCEPT ![i] = st]
    /\ UNCHANGED <<sync_vars, applier_vars, upload_vars, probe_vars, hash_vars,
                   len_files, launched, dpc>>

NextDeleteBatch ==
    \/ LaunchBatch
    \/ AllLaunched
    \/ PollJobs
    \/ Sleep
    \/ JobEnds

\* the interpreter goes on running the method; the store's jobs end when
\* they end
SpecDeleteBatch ==
    /\ InitDeleteBatch
    /\ [][NextDeleteBatch]_vars
    /\ WF_vars(LaunchBatch)
    /\ WF_vars(AllLaunched)
    /\ WF_vars(PollJobs)
    /\ WF_vars(Sleep)

\* ------------------------------------------------------------------- C31
InBatch(e, b) == launched[b].first <= e /\ e <= launched[b].last

BatchesAsClaimed ==
    /\ \A b \in DOMAIN launched :
          /\ launched[b].first <= launched[b].last
          /\ launched[b].last - launched[b].first + 1 <= max_batch_size
    /\ \A b, c \in DOMAIN launched :
          b # c => \A e \in {launched[b].first, launched[b].last} : ~InBatch(e, c)
    /\ Len(job_status) = Len(launched)
    /\ dpc # "launch"
          => \A e \in {0, len_files - 1, max_batch_size - 1, max_batch_size} :
                (0 <= e /\ e < len_files) => \E b \in DOMAIN launched : InBatch(e, b)
    /\ dpc = "returned"
          => \A i \in DOMAIN job_status : job_status[i] = "complete"
    /\ len_files = 0 => (launched = <<>> /\ dpc # "sleep")

NoJobInProgress == \A i \in DOMAIN job_status : job_status[i] # "in_progress"

\* C31: _delete_batch puts every DeleteArg into exactly one batch of at
\* most 1000 entries and launches one job per batch; it does not return
\* while a launched job is incomplete; it returns eventually when every
\* launched job eventually stops being in progress; for an empty list it
\* launches nothing and returns at once.
C31_BatchedDelete ==
    /\ []BatchesAsClaimed
    /\ (<>[](dpc # "launch" /\ NoJobInProgress)) => <>(dpc = "returned")

\* ------------------------------------------------------------------- C32
\* the staged folders that delete-remote finds on the remote as folders,
\* not newer than expected
StillThere(skip) ==
    {staged_order[i] : i \in DOMAIN staged_order} \cap (WideFolders \ skip)

Queued(skip) ==
    LET q == FoldersToDeleteRemotely(WFolders(staged_order), skip)
    IN  {q[i] : i \in DOMAIN q}

QueuedInAscendingDepth(skip) ==
    LET q == FoldersToDeleteRemotely(WFolders(staged_order), skip)
    IN  \A i, j \in DOMAIN q : i < j => depth(q[i]) <= depth(q[j])

\* C32: delete-remote handles the staged folders in ascending depth and
\* leaves a folder out of the batch only when a folder above it is queued:
\* every staged folder that is still a folder on the remote is queued or
\* lies beneath a queued folder (the siblings a and ab are both queued).
C32_FolderElision ==
    apc = "delete_remote"
        => \A skip \in Conflicts :
              /\ QueuedInAscendingDepth(skip)
              /\ \A f \in StillThere(skip) :
                    \/ f \in Queued(skip)
                    \/ \E g \in Queued(skip) : IsAncestor(g, f)

\* ------------------------------------------------------------------- C33
\* delete-local is about to run on the staged folder p, which holds an
\* entry q that is not staged for deletion
StagedNonEmpty(p, q) ==
    /\ pc = "a4"
    /\ action_cache[p] # None
    /\ lfs[p].kind = "dir"
    /\ IsAncestor(p, q)
    /\ lfs[q].kind # "none"
    /\ action_cache[q] = None

\* C33: _method_delete_local removes a staged folder only when it is empty;
\* a staged folder that still holds an entry is skipped with its content
\* intact, and the rest of the pass is processed.
C33_NonEmptyFolderIsSkipped ==
    [][\A p, q \in Paths :
          StagedNonEmpty(p, q)
             => /\ lfs'[p] = lfs[p]
                /\ lfs'[q] = lfs[q]
                /\ pc' = "end"]_vars

\* ------------------------------------------------------- SpecApplyTime
\* One applier of a pass, entered with both sides in any state: between the
\* classification of a phase and its applier the user and other clients
\* may have changed everything (the listing, the classification and the
\* applier are separate calls on live data), and a metadata call may answer
\* with an error.
LocalNodes(p) ==
    IF p \in FolderPaths THEN {Absent, Dir}
    ELSE {Absent} \cup {File(c, t) : c \in Contents, t \in 1..MaxTime}
TreeStates ==
    {fs \in [Paths -> UNION {LocalNodes(p) : p \in Paths}] :
        \A p \in Paths : /\ fs[p] \in LocalNodes(p)
                         /\ fs[p].kind # "none" => ParentsExist(fs, p)}

\* what a classification can have staged for p: nothing, or for an upward
\* phase a LocalFile object with any of its lazy fields filled, or for the
\* download a RemoteFile value of a listing
StagedObjects(p) ==
    IF p \in FolderPaths THEN {LocalFile(Dir)}
    ELSE {[is_folder |-> FALSE, timestamp |-> t, size |-> s, dropbox_hash |-> h] :
            t \in {-1} \cup (1..MaxTime),
            s \in {-1} \cup {SizeOf(c) : c \in Contents},
            h \in {NoHash} \cup {compute_dropbox_hash(c) : c \in Contents}}
StagedEntries(p, at) ==
    {[entry |-> None, obj |-> NullObj]} \cup
    IF at = "a3"
    THEN {[entry |-> RemoteFile(n), obj |-> NullObj] : n \in LocalNodes(p) \ {Absent}}
    ELSE {[entry |-> LocalRef(0), obj |-> o] : o \in StagedObjects(p)}

InitApplyTime ==
    /\ debug = FALSE
    /\ dropbox_root \in BOOLEAN
    /\ now = MaxTime
    /\ lfs \in TreeStates
    /\ rfs \in TreeStates
    /\ pc \in {"a1", "a2", "a3"}
    /\ \E staged \in [Paths -> UNION {StagedEntries(p, pc) : p \in Paths}] :
          /\ \A p \in Paths : staged[p] \in StagedEntries(p, pc)
          /\ \E p \in Paths : staged[p].entry # None
          /\ action_cache = [p \in Paths |-> staged[p].entry]
          /\ heap = [p \in Paths |->
                        [s \in Slots |-> IF s = 0 THEN staged[p].obj ELSE NullObj]]
    /\ api_error \in BOOLEAN
    /\ local_index = EmptyIndex
    /\ remote_index = EmptyIndex
    /\ last_local_index = EmptyIndex
    /\ last_remote_index = EmptyIndex
    /\ locally_modified = EmptyIndex
    /\ locally_removed = EmptyIndex
    /\ remotely_modified = EmptyIndex
    /\ remotely_removed = EmptyIndex
    /\ cur = NoPass
    /\ start = NoStart
    /\ base = NoBase
    /\ NoApplier
    /\ NoUpload
    /\ NoBatch
    /\ NoHashing

NextApplyTime == ApplyUpload \/ ApplyDeleteRemote \/ ApplyDownload

SpecApplyTime == InitApplyTime /\ [][NextApplyTime]_vars

\* ------------------------------------------------------------------ C34
\* the local file at p is, when the download applier starts, a file with the
\* hash of the staged remote entry or with a modification time not older
\* than the entry's
KeptByDownloadGuard(p) ==
    /\ action_cache[p] # None
    /\ ~action_cache[p].is_folder
    /\ lfs[p].kind = "file"
    /\ \/ compute_dropbox_hash(lfs[p].content) = action_cache[p].hash
       \/ get_mod_time_locally(lfs[p]) >= action_cache[p].ts

\* C34: _method_download never overwrites a local file that, at the moment
\* of the download step, has the hash of the staged remote entry or a
\* modification time not older than the entry's, whatever the file was at
\* classification: the file stays as it is and no download is issued for it.
C34_DownloadGuard ==
    [][\A p \in Paths :
          (pc = "a3" /\ KeptByDownloadGuard(p))
              => /\ lfs'[p] = lfs[p]
                 /\ "download" \notin cur'.done[p]]_vars

\* the download applier has run over a staged file whose local counterpart
\* holds other bytes than the staged entry and is not older: it was skipped
C34_Witness ==
    /\ pc = "c4"
    /\ [at |-> "a3", path |-> pAB] \in cur.skipped
    /\ action_cache[pAB] # None
    /\ lfs[pAB].kind = "file"
    /\ compute_dropbox_hash(lfs[pAB].content) # action_cache[pAB].hash
    /\ rfs[pAB].kind = "file"
    /\ rfs[pAB].content # lfs[pAB].content

\* ------------------------------------------------------------------ C35
\* C35: _get_remote_file answers "no entry" only for not_found; any other
\* error of the metadata call propagates, so that an applier that probes
\* while the call fails issues no upload and no delete: the pass ends with
\* the exception and the remote store is as it was.
C35_ProbeErrorsPropagate ==
    [][(api_error /\ pc \in {"a1", "a2"})
          => /\ pc' = "crashed"
             /\ rfs' = rfs
             /\ \A p \in Paths : cur'.done[p] = cur.done[p]]_vars

\* ------------------------------------------------------------------ C36
\* the mtime of the staged local entry of p as _upload_files reads it: the
\* field of the LocalFile object, filled from the live file if still unset
StagedMTime(p) ==
    IF heap[p][0].timestamp >= 0 THEN heap[p][0].timestamp
    ELSE get_mod_time_locally(lfs[p])

\* the remote store holds at p a file not older than the staged local entry
RemoteNotOlder(p) ==
    /\ action_cache[p] = LocalRef(0)
    /\ ~heap[p][0].is_folder
    /\ rfs[p].kind = "file"
    /\ lfs[p].kind = "file" \/ heap[p][0].timestamp >= 0
    /\ rfs[p].mtime >= StagedMTime(p)

\* C36: _upload_files issues no upload whenever, at the upload step, the
\* remote store holds an entry whose mtime is not older than the staged
\* local entry's: the newer remote file is left untouched.
C36_UploadGuard ==
    [][\A p \in Paths :
          (pc = "a1" /\ RemoteNotOlder(p))
              => /\ rfs'[p] = rfs[p]
                 /\ "upload" \notin cur'.done[p]]_vars

\* ------------------------------------------------------------------ C37
\* the only remote-side record of p is an entry that an upward ADD wrote
\* into the remote index (a LocalFile, where a listing yields RemoteFiles)
\* and that no listing confirms: p was absent remotely at the end of the
\* pass before, at the start of this one and is absent now
OnlyOptimisticRecord(p) ==
    /\ remotely_removed[p] # None
    /\ remotely_removed[p].cls = "L"
    /\ start.prev.valid => start.prev.rfs[p].kind = "none"
    /\ start.rfs[p].kind = "none"
    /\ rfs[p].kind = "none"

\* C37: with debug = true, phase (DEL, DOWN) never stages a path whose only
\* remote-side record is the optimistic index entry of an upward ADD that
\* was not executed, and sync deletes no such path from the local disk.
C37_DryRunKeepsLocalData ==
    debug => \A p \in Paths :
                (InPass /\ OnlyOptimisticRecord(p))
                    => /\ p \notin cur.staged[4]
                       /\ cur.done[p] \cap {"unlink", "rmdir"} = {}

\* ------------------------------------------------------------------ C38
Present(fs) == {p \in Paths : fs[p].kind # "none"}

\* C38: after every completed pass with debug = false (nothing else touches
\* either side while a pass runs), the keys of last_remote_index are the
\* paths present on the remote store and the keys of last_local_index the
\* paths present in the local tree.
C38_SnapshotFidelity ==
    (PassDone /\ ~debug)
        => /\ Keys(last_remote_index) = Present(rfs)
           /\ Keys(last_local_index) = Present(lfs)

\* ------------------------------------------------------------------ C39
\* C39: the download of a staged entry with relative path p reads the remote
\* object that the upload, the probe and the remote delete address, the one
\* at dropbox_folder / p, for every configured dropbox_folder: a download
\* that was made wrote the bytes of that object, and a download of an
\* object that is there, into a folder that is there or staged with it,
\* does not fail as not found.
C39_ConsistentAddressing ==
    [][\A p \in Paths :
          (pc = "a3" /\ action_cache[p] # None /\ ~action_cache[p].is_folder)
              => /\ "download" \in cur'.done[p]
                     => lfs'[p] = File(rfs[p].content, now)
                 /\ (/\ rfs[p].kind = "file"
                     /\ ~KeptByDownloadGuard(p)
                     /\ lfs[p].kind # "dir"
                     /\ \A q \in Paths : IsAncestor(q, p) =>
                           lfs[q].kind = "dir" \/ action_cache[q] # None)
                     => pc' # "crashed"]_vars

\* ------------------------------------------------------------- SpecHash
\* The content hash of a file (utils.compute_dropbox_hash) and its
\* memory-mapped variant (windy_hasher.compute_dropbox_hash_memory_mapped),
\* on two files of up to MaxLen MiB. One element of a byte sequence stands
\* for one MiB of the file.
MaxLen == 5         \* a file holds up to MaxLen MiB
MaxByte == 1        \* each MiB is one of 0..MaxByte
dropbox_hash_chunk_size == 4        \* MiB
DROPBOX_HASH_CHUNK_SIZE == 4        \* MiB

ByteStrings == UNION {[1..n -> 0..MaxByte] : n \in 0..MaxLen}

\* hashlib.sha256(data), digest() and hexdigest() alike: a value that
\* determines data and is determined by it (no collisions)
sha256(data) == [sha |-> data]
\* e3b0c44298fc1c149afbf4c8996fb92427ae41e4649b934ca495991b7852b855
EmptyStringDigest == sha256(<<>>)

\* f.read(size) at position pos of the file: up to size bytes, b'' at the end
fread(bytes, pos, size) ==
    SubSeq(bytes, pos + 1, IF pos + size < Len(bytes) THEN pos + size ELSE Len(bytes))

\* the while loop of compute_dropbox_hash: block_hashes grows by the raw
\* digest of every chunk read, until read returns b''
RECURSIVE ReadBlocks(_, _, _)
ReadBlocks(bytes, pos, block_hashes) ==
    LET chunk == fread(bytes, pos, dropbox_hash_chunk_size)
    IN  IF Len(chunk) = 0 THEN block_hashes
        ELSE ReadBlocks(bytes, pos + Len(chunk), Append(block_hashes, sha256(chunk)))

\* the loop without the short chunk at the end of the file
RECURSIVE ReadFullBlocks(_, _, _)
ReadFullBlocks(bytes, pos, block_hashes) ==
    LET chunk == fread(bytes, pos, dropbox_hash_chunk_size)
    IN  IF Len(chunk) < dropbox_hash_chunk_size THEN block_hashes
        ELSE ReadFullBlocks(bytes, pos + Len(chunk), Append(block_hashes, sha256(chunk)))

compute_dropbox_hash_full_blocks(bytes) == sha256(ReadFullBlocks(bytes, 0, <<>>))
\* utils.compute_dropbox_hash on a file holding bytes
compute_dropbox_hash_streamed(bytes) == sha256(ReadBlocks(bytes, 0, <<>>))

\* range(0, file_size, DROPBOX_HASH_CHUNK_SIZE)
ChunkStarts(size) ==
    [i \in 1..((size + DROPBOX_HASH_CHUNK_SIZE - 1) \div DROPBOX_HASH_CHUNK_SIZE)
        |-> (i - 1) * DROPBOX_HASH_CHUNK_SIZE]

\* windy_hasher.compute_dropbox_hash_memory_mapped on a file holding bytes
compute_dropbox_hash_memory_mapped(bytes) ==
    LET size == Len(bytes)
        starts == ChunkStarts(size)
        chunk_end(chunk_start) ==
            IF chunk_start + DROPBOX_HASH_CHUNK_SIZE < size
            THEN chunk_start + DROPBOX_HASH_CHUNK_SIZE ELSE size
        block_hashes ==
            [i \in DOMAIN starts |->
                sha256(SubSeq(bytes, starts[i] + 1, chunk_end(starts[i])))]
    IN  IF size < 1 THEN EmptyStringDigest
        ELSE sha256(block_hashes)

NoDigests == [streamed |-> EmptyStringDigest, other |-> EmptyStringDigest,
              mapped |-> EmptyStringDigest]

InitHash ==
    /\ debug = FALSE
    /\ dropbox_root = TRUE
    /\ Constructed
    /\ NoApplier
    /\ NoUpload
    /\ ProbeAnswers
    /\ NoBatch
    /\ file_bytes \in ByteStrings
    /\ other_bytes \in ByteStrings
    /\ digests = NoDigests
    /\ hpc = "start"

\* compute_dropbox_hash on the first file
HashFile ==
    /\ hpc = "start"
    /\ digests' = [digests EXCEPT !.streamed = compute_dropbox_hash_streamed(file_bytes)]
    /\ hpc' = "hashed"
    /\ UNCHANGED <<sync_vars, applier_vars, upload_vars, probe_vars, batch_vars,
                   file_bytes, other_bytes>>

\* compute_dropbox_hash on the second file
HashOtherFile ==
    /\ hpc = "hashed"
    /\ digests' = [digests EXCEPT !.other = compute_dropbox_hash_streamed(other_bytes)]
    /\ hpc' = "both_hashed"
    /\ UNCHANGED <<sync_vars, applier_vars, upload_vars, probe_vars, batch_vars,
                   file_bytes, other_bytes>>

\* compute_dropbox_hash_memory_mapped on the first file
HashFileMemoryMapped ==
    /\ hpc = "both_hashed"
    /\ digests' = [digests EXCEPT !.mapped = compute_dropbox_hash_memory_mapped(file_bytes)]
    /\ hpc' = "done"
    /\ UNCHANGED <<sync_vars, applier_vars, upload_vars, probe_vars, batch_vars,
                   file_bytes, other_bytes>>

NextHash == HashFile \/ HashOtherFile \/ HashFileMemoryMapped

SpecHash == InitHash /\ [][NextHash]_vars

\* ------------------------------------------------------------------ C40
\* the consecutive blocks of chunk_size MiB of a file, the last one short
\* when the length is no multiple of chunk_size
BlocksOf(bytes, chunk_size) ==
    [i \in 1..((Len(bytes) + chunk_size - 1) \div chunk_size) |->
        [j \in 1..(IF i * chunk_size <= Len(bytes) THEN chunk_size
                   ELSE Len(bytes) - (i - 1) * chunk_size)
            |-> bytes[(i - 1) * chunk_size + j]]]

\* C40: compute_dropbox_hash is the SHA-256 of the concatenation, in order,
\* of the SHA-256 digests of the file's consecutive 4 MiB blocks (the last
\* may be short); an empty file yields the SHA-256 of the empty string; two
\* files get the same hash iff they hold the same bytes; and
\* compute_dropbox_hash_memory_mapped returns the same value for every
\* file, the empty one included.
C40_ContentHash ==
    hpc = "done" =>
        /\ digests.streamed =
              sha256([i \in DOMAIN BlocksOf(file_bytes, dropbox_hash_chunk_size) |->
                         sha256(BlocksOf(file_bytes, dropbox_hash_chunk_size)[i])])
        /\ file_bytes = <<>> => digests.streamed = EmptyStringDigest
        /\ (digests.streamed = digests.other) <=> (file_bytes = other_bytes)
        /\ digests.mapped = digests.streamed

\* both functions have hashed a file of more than one block, and the hash
\* of a second file that differs from it in the short last block only is
\* another one
C40_Witness ==
    /\ hpc = "done"
    /\ Len(file_bytes) > dropbox_hash_chunk_size
    /\ Len(other_bytes) = Len(file_bytes)
    /\ file_bytes # other_bytes
    /\ SubSeq(file_bytes, 1, dropbox_hash_chunk_size)
          = SubSeq(other_bytes, 1, dropbox_hash_chunk_size)
    /\ digests.streamed # digests.other
    /\ digests.mapped = digests.streamed
====
